---- MODULE Spec2Model ----
(***************************************************************************)
(* A model of the resume / cover-letter generator: the quota tracker of    *)
(* AIManager (src/ai_providers/ai_manager.py) and the content generators   *)
(* built on the Gemini provider.                                           *)
(*                                                                         *)
(* Text is a sequence of one-character strings, so that lower(),           *)
(* substring tests and slicing are computed rather than assumed.           *)
(* time.time() is the integer clock `now` (whole seconds).                 *)
(***************************************************************************)
EXTENDS Integers, Sequences, FiniteSets, TLC

VARIABLES
    now,        \* time.time(): the wall clock, in seconds
    ticks,      \* how often the clock has advanced (bounded by MaxTicks)
    qfile,      \* the contents of data/quota_usage.json
    raised,     \* the exception the last AIManager call left with ("none" if it returned)
    info,       \* the dict the last get_quota_info call returned, if it is the last call
    loaded,     \* the record the last _load_quota_usage call returned, if it is the last call
    calls,      \* history: the _update_quota_usage calls that counted or recorded something
    succLog,    \* history: the timestamps of the calls made with success=True since time 0
    recorded,   \* history: every entry ever appended to quota_errors, in order
    hasKey,     \* whether GOOGLE_API_KEY is set, so that AIManager holds a provider
    pcalls,     \* the provider.generate calls the last generator or manager call made
    gresult,    \* what the last generator or manager call returned or raised
    session,    \* st.session_state.generated_resume_sections
    jlast,      \* the last JobAnalyzer call: the method, its text and what it returned
    pfile,      \* the contents of data/profile.json
    profile_data,   \* ProfileManager.profile_data
    plast,      \* the last ProfileManager or profile page call and its outcome
    sdk,        \* the object the SDK handed to the last extract_text_from_response call
    pc,         \* where each process that runs _update_quota_usage on its own stands
    local       \* the `usage` and `current_time` locals of each of these processes

quotaVars == <<now, ticks, qfile, raised, info, loaded, calls, succLog, recorded>>
genVars == <<hasKey, pcalls, gresult, session>>
docVars == <<jlast, pfile, profile_data, plast>>
runVars == <<sdk, pc, local>>
vars == <<now, ticks, qfile, raised, info, loaded, calls, succLog, recorded,
          hasKey, pcalls, gresult, session, jlast, pfile, profile_data, plast,
          sdk, pc, local>>

----------------------------------------------------------------------------
(* Bounds of the model *)

MaxCalls == 2
MaxTicks == 2
WarmRequests == 14
WarmDaily == 1499
WarmErrors == 9

(* Program constants *)

MinuteWindow == 60
DayWindow == 86400
MinuteLimit == 15
DailyLimit == 1500
MaxQuotaErrors == 10

(* The clock advances by one of these amounts: just under a minute window,   *)
(* exactly one, and what then completes (or just misses) a whole day window. *)
Steps == {MinuteWindow - 1, MinuteWindow, DayWindow - MinuteWindow}

----------------------------------------------------------------------------
(* Text *)

UpperChars == <<"A","B","C","D","E","F","G","H","I","J","K","L","M",
                "N","O","P","Q","R","S","T","U","V","W","X","Y","Z">>
LowerChars == <<"a","b","c","d","e","f","g","h","i","j","k","l","m",
                "n","o","p","q","r","s","t","u","v","w","x","y","z">>

\* The lower-case letter of each upper-case letter
LowerOf == [c \in {UpperChars[i] : i \in 1..26} |->
               LowerChars[CHOOSE i \in 1..26 : UpperChars[i] = c]]

\* str.lower() on one character
LowerChar(c) == IF c \in DOMAIN LowerOf THEN LowerOf[c] ELSE c

\* str.lower()
Lower(s) == [i \in 1..Len(s) |-> LowerChar(s[i])]

\* `sub in s` for two strings
Contains(sub, s) ==
    \E i \in 1..(Len(s) - Len(sub) + 1) : SubSeq(s, i, i + Len(sub) - 1) = sub

QUOTA == <<"q","u","o","t","a">>

\* An optional argument: None, or a string
None == [some |-> FALSE]
Some(x) == [some |-> TRUE, val |-> x]

\* The error arguments _update_quota_usage is called with
ErrNoQuotaLeft == <<"n","o"," ","Q","U","O","T","A">>
ErrQuot == <<"Q","u","o","t"," ","a">>
ErrorArgs == {None, Some(<<>>), Some(ErrNoQuotaLeft), Some(ErrQuot)}

----------------------------------------------------------------------------
(* The quota file and the usage record (AIManager) *)

Fields == {"daily_requests", "minute_requests", "last_minute_reset",
           "last_daily_reset", "quota_errors"}

\* A dict read from, or written to, the quota file. `has` is its key set; a key
\* that is absent holds the filler value 0 or <<>>, which is never read.
UsageDict(has, daily, minute, lmr, ldr, errs) ==
    [isdict |-> TRUE, has |-> has, daily_requests |-> daily, minute_requests |-> minute,
     last_minute_reset |-> lmr, last_daily_reset |-> ldr, quota_errors |-> errs]

\* A JSON document that is not an object (a list, a number, a string, null)
NonObject == [UsageDict({}, 0, 0, 0, 0, <<>>) EXCEPT !.isdict = FALSE]

\* The file: absent, present but unreadable, present but not JSON, or a JSON document
AbsentFile == [kind |-> "absent", doc |-> NonObject]
UnreadableFile == [kind |-> "unreadable", doc |-> NonObject]
GarbageFile == [kind |-> "garbage", doc |-> NonObject]
JsonFile(doc) == [kind |-> "json", doc |-> doc]

\* A fresh record that is not stamped with the current time: not what the code returns
FreshUsageUnstamped(t) == UsageDict(Fields, 0, 0, 0, 0, <<>>)

\* The record _load_quota_usage returns when it cannot read the file
FreshUsage(t) == UsageDict(Fields, 0, 0, t, t, <<>>)

\* _load_quota_usage, at time t
LoadQuotaUsage(f, t) ==
    IF f.kind = "json" THEN f.doc ELSE FreshUsage(t)

\* _save_quota_usage: the file after the call (a failed write is swallowed)
SaveQuotaUsage(f, usage, writable) ==
    IF writable THEN JsonFile(usage) ELSE f

\* The minute window with a strict comparison: not what the code does
RolloverMinuteStrict(u, t) ==
    IF t - u.last_minute_reset > MinuteWindow
    THEN [u EXCEPT !.minute_requests = 0, !.last_minute_reset = t,
                   !.has = @ \cup {"minute_requests", "last_minute_reset"}]
    ELSE u

\* lines 56-58: the minute window
RolloverMinute(u, t) ==
    IF t - u.last_minute_reset >= MinuteWindow
    THEN [u EXCEPT !.minute_requests = 0, !.last_minute_reset = t,
                   !.has = @ \cup {"minute_requests", "last_minute_reset"}]
    ELSE u

\* The day window zeroed without a new stamp: not what the code does
RolloverDailyUnstamped(u, t) ==
    IF t - u.last_daily_reset >= DayWindow
    THEN [u EXCEPT !.daily_requests = 0, !.has = @ \cup {"daily_requests"}]
    ELSE u

\* lines 61-63: the day window
RolloverDaily(u, t) ==
    IF t - u.last_daily_reset >= DayWindow
    THEN [u EXCEPT !.daily_requests = 0, !.last_daily_reset = t,
                   !.has = @ \cup {"daily_requests", "last_daily_reset"}]
    ELSE u

\* Counting with the minute counter capped at the limit: not what the code does
IncrementCapped(u, success) ==
    IF success
    THEN [u EXCEPT !.minute_requests = IF @ >= MinuteLimit THEN @ ELSE @ + 1,
                   !.daily_requests = @ + 1]
    ELSE u

\* lines 66-68: count the request
IncrementCounters(u, success) ==
    IF success
    THEN [u EXCEPT !.minute_requests = @ + 1, !.daily_requests = @ + 1]
    ELSE u

\* The test without lower(): not what the code does
IsQuotaErrorCaseSensitive(error) ==
    error.some /\ error.val # <<>> /\ Contains(QUOTA, error.val)

\* line 71: `error and "quota" in error.lower()`
IsQuotaError(error) ==
    error.some /\ error.val # <<>> /\ Contains(QUOTA, Lower(error.val))

\* quota_errors[:10], which would evict the newest entry: not what the code does
KeepFirst(errs) ==
    IF Len(errs) > MaxQuotaErrors THEN SubSeq(errs, 1, MaxQuotaErrors) ELSE errs

\* line 77: quota_errors[-10:]
KeepLast(errs) ==
    IF Len(errs) > MaxQuotaErrors
    THEN SubSeq(errs, Len(errs) - MaxQuotaErrors + 1, Len(errs))
    ELSE errs

\* lines 71-77: store a quota error
StoreQuotaError(u, t, error) ==
    IF IsQuotaError(error)
    THEN [u EXCEPT !.quota_errors =
             KeepLast(Append(@, [timestamp |-> t, error |-> error.val]))]
    ELSE u

\* What _update_quota_usage(success, error) does at time t on file f: the exception
\* it leaves with, if any, and the record it has built when it reaches the save.
UpdateOutcome(f, t, success, error) ==
    LET u0 == LoadQuotaUsage(f, t)
        u1 == RolloverMinute(u0, t)
        u2 == RolloverDaily(u1, t)
        u3 == IncrementCounters(u2, success)
        u4 == StoreQuotaError(u3, t, error)
    IN  IF ~u0.isdict THEN [raised |-> "TypeError", usage |-> u0]
        ELSE IF "last_minute_reset" \notin u0.has THEN [raised |-> "KeyError", usage |-> u0]
        ELSE IF "last_daily_reset" \notin u1.has THEN [raised |-> "KeyError", usage |-> u1]
        ELSE IF success /\ ~({"minute_requests", "daily_requests"} \subseteq u2.has)
             THEN [raised |-> "KeyError", usage |-> u2]
        ELSE IF IsQuotaError(error) /\ "quota_errors" \notin u3.has
             THEN [raised |-> "KeyError", usage |-> u3]
        ELSE [raised |-> "none", usage |-> u4]

\* get_quota_info's reset strings, as the tuple of their parts
MinuteResetStr(r) ==
    IF r < 60 THEN <<r, "s">> ELSE <<r \div 60, "m ", r % 60, "s">>

DailyResetStr(r) ==
    IF r > 3600 THEN <<r \div 3600, "h ", (r % 3600) \div 60, "m">> ELSE <<r \div 60, "m">>

\* The difference left unclamped: not what the code does
NoClamp(a, b) == b

\* max(a, b)
Max(a, b) == IF a >= b THEN a ELSE b

NoInfo == [valid |-> FALSE]

\* session_state holds no generated sections yet
NoSession == [t |-> "none"]

\* A report on the record with its elapsed windows rolled over first: not what
\* the code returns
QuotaInfoRolled(u, t) ==
    LET v == RolloverDaily(RolloverMinute(u, t), t)
    IN  [valid |-> TRUE,
         daily_used |-> v.daily_requests,
         daily_limit |-> DailyLimit,
         daily_remaining |-> Max(0, DailyLimit - v.daily_requests),
         daily_reset_in |-> DailyResetStr(Max(0, DayWindow - (t - v.last_daily_reset))),
         daily_reset_timestamp |-> v.last_daily_reset + DayWindow,
         minute_used |-> v.minute_requests,
         minute_limit |-> MinuteLimit,
         minute_remaining |-> Max(0, MinuteLimit - v.minute_requests),
         minute_reset_in |-> MinuteResetStr(Max(0, MinuteWindow - (t - v.last_minute_reset))),
         minute_reset_timestamp |-> v.last_minute_reset + MinuteWindow,
         last_quota_error |-> IF v.quota_errors # <<>>
                              THEN Some(v.quota_errors[Len(v.quota_errors)])
                              ELSE None]

\* get_quota_info: the dict returned at time t for the loaded record u
QuotaInfo(u, t) ==
    [valid |-> TRUE,
     daily_used |-> u.daily_requests,
     daily_limit |-> DailyLimit,
     daily_remaining |-> Max(0, DailyLimit - u.daily_requests),
     daily_reset_in |-> DailyResetStr(Max(0, DayWindow - (t - u.last_daily_reset))),
     daily_reset_timestamp |-> u.last_daily_reset + DayWindow,
     minute_used |-> u.minute_requests,
     minute_limit |-> MinuteLimit,
     minute_remaining |-> Max(0, MinuteLimit - u.minute_requests),
     minute_reset_in |-> MinuteResetStr(Max(0, MinuteWindow - (t - u.last_minute_reset))),
     minute_reset_timestamp |-> u.last_minute_reset + MinuteWindow,
     last_quota_error |-> IF u.quota_errors # <<>>
                          THEN Some(u.quota_errors[Len(u.quota_errors)])
                          ELSE None]

\* The exception get_quota_info leaves with on record u, if any
QuotaInfoRaises(u) ==
    IF ~u.isdict THEN "TypeError"
    ELSE IF ~(Fields \subseteq u.has) THEN "KeyError"
    ELSE "none"

----------------------------------------------------------------------------
(* Actions of the quota tracker *)

\* What a call of _update_quota_usage(success, error) does to the tracker;
\* `writable` says whether the quota file can be written.
QuotaUpdate(success, error, writable) ==
    LET out == UpdateOutcome(qfile, now, success, error)
        counts == success \/ IsQuotaError(error)
    IN  /\ counts => calls < MaxCalls
        /\ raised' = out.raised
        /\ qfile' = IF out.raised = "none"
                    THEN SaveQuotaUsage(qfile, out.usage, writable)
                    ELSE qfile
        /\ info' = NoInfo
        /\ loaded' = NonObject
        /\ calls' = IF counts THEN calls + 1 ELSE calls
        /\ succLog' = IF success THEN Append(succLog, now) ELSE succLog
        /\ recorded' = IF out.raised = "none" /\ writable /\ IsQuotaError(error)
                       THEN Append(recorded, [timestamp |-> now, error |-> error.val])
                       ELSE recorded
        /\ UNCHANGED <<now, ticks>>

\* A call of _update_quota_usage(success, error) on its own
UpdateQuotaUsage(success, error, writable) ==
    /\ QuotaUpdate(success, error, writable)
    /\ UNCHANGED genVars
    /\ UNCHANGED <<docVars, runVars>>

\* A call of get_quota_info()
GetQuotaInfo ==
    LET u == LoadQuotaUsage(qfile, now)
    IN  /\ raised' = QuotaInfoRaises(u)
        /\ info' = IF QuotaInfoRaises(u) = "none" THEN QuotaInfo(u, now) ELSE NoInfo
        /\ loaded' = NonObject
        /\ UNCHANGED <<now, ticks, qfile, calls, succLog, recorded>>
        /\ UNCHANGED genVars
        /\ UNCHANGED <<docVars, runVars>>

\* A call of _load_quota_usage() on its own
LoadCall ==
    /\ loaded' = LoadQuotaUsage(qfile, now)
    /\ raised' = "none"
    /\ info' = NoInfo
    /\ UNCHANGED <<now, ticks, qfile, calls, succLog, recorded>>
    /\ UNCHANGED genVars
    /\ UNCHANGED <<docVars, runVars>>

\* Time passes
Tick(d) ==
    /\ ticks < MaxTicks
    /\ now' = now + d
    /\ ticks' = ticks + 1
    /\ UNCHANGED <<qfile, raised, info, loaded, calls, succLog, recorded>>
    /\ UNCHANGED genVars
    /\ UNCHANGED <<docVars, runVars>>

\* No call made yet
NoCall == [op |-> "none"]

\* The profile file: absent, or holding a text
NoProfileFile == [exists |-> FALSE, text |-> <<>>]
ProfileFile(text) == [exists |-> TRUE, text |-> text]

\* The dict {}
EmptyDict == [t |-> "obj", keys |-> <<>>, vals |-> <<>>]

\* The processes that may run _update_quota_usage on the same quota file
NumProcs == 2
Procs == 1..NumProcs

\* No response normalised yet, and no process inside _update_quota_usage
InitRun ==
    /\ sdk = NoCall
    /\ pc = [p \in Procs |-> "idle"]
    /\ local = [p \in Procs |-> NoCall]

\* No job analysed yet, no profile file, and a ProfileManager built on that
InitDocs ==
    /\ jlast = NoCall
    /\ pfile = NoProfileFile
    /\ profile_data = EmptyDict
    /\ plast = NoCall
    /\ InitRun

\* A first run, with no quota file yet
InitFresh ==
    /\ now = 0
    /\ ticks = 0
    /\ qfile = AbsentFile
    /\ raised = "none"
    /\ info = NoInfo
    /\ loaded = NonObject
    /\ calls = 0
    /\ succLog = <<>>
    /\ recorded = <<>>
    /\ hasKey = TRUE
    /\ pcalls = <<>>
    /\ gresult = [kind |-> "none", exc |-> "", msg |-> <<>>,
                  val |-> [t |-> "lit", name |-> "null"]]
    /\ session = NoSession
    /\ InitDocs

\* A later run. The file was created a day less MinuteWindow - 1 seconds ago and
\* has counted WarmDaily requests since; the current minute window began at time 0
\* and has seen WarmRequests successful requests and WarmErrors quota errors.
WarmEntry == [timestamp |-> 0, error |-> ErrNoQuotaLeft]

WarmUsage ==
    UsageDict(Fields, WarmDaily, WarmRequests, 0, (MinuteWindow - 1) - DayWindow,
              [i \in 1..WarmErrors |-> WarmEntry])

InitWarm ==
    /\ now = 0
    /\ ticks = 0
    /\ qfile = JsonFile(WarmUsage)
    /\ raised = "none"
    /\ info = NoInfo
    /\ loaded = NonObject
    /\ calls = 0
    /\ succLog = [i \in 1..WarmRequests |-> 0]
    /\ recorded = [i \in 1..WarmErrors |-> WarmEntry]
    /\ hasKey = TRUE
    /\ pcalls = <<>>
    /\ gresult = [kind |-> "none", exc |-> "", msg |-> <<>>,
                  val |-> [t |-> "lit", name |-> "null"]]
    /\ session = NoSession
    /\ InitDocs

Init == InitFresh \/ InitWarm

UpdateStep == \E success \in BOOLEAN, error \in ErrorArgs : UpdateQuotaUsage(success, error, TRUE)

TickStep == \E d \in Steps : Tick(d)

Next ==
    \/ UpdateStep
    \/ GetQuotaInfo
    \/ TickStep

\* The quota tracker on a working file system
Spec == Init /\ [][Next]_vars

\* Quota files as a crash, an editor or another program may have left them: a JSON
\* object that lacks one of the fields or all of them, and a JSON list
PartialUsage(has) ==
    UsageDict(has,
              IF "daily_requests" \in has THEN 2 ELSE 0,
              IF "minute_requests" \in has THEN 1 ELSE 0,
              0, 0, <<>>)

DamagedFiles ==
    {AbsentFile, UnreadableFile, GarbageFile, JsonFile(NonObject), JsonFile(PartialUsage({}))}
        \cup {JsonFile(PartialUsage(Fields \ {f})) : f \in Fields}

InitFaulty ==
    /\ now = 0
    /\ ticks = 0
    /\ qfile \in DamagedFiles
    /\ raised = "none"
    /\ info = NoInfo
    /\ loaded = NonObject
    /\ calls = 0
    /\ succLog = <<>>
    /\ recorded = <<>>
    /\ hasKey = TRUE
    /\ pcalls = <<>>
    /\ gresult = [kind |-> "none", exc |-> "", msg |-> <<>>,
                  val |-> [t |-> "lit", name |-> "null"]]
    /\ session = NoSession
    /\ InitDocs

UpdateStepFaulty ==
    \E success \in BOOLEAN, error \in ErrorArgs, writable \in BOOLEAN :
        UpdateQuotaUsage(success, error, writable)

NextFaulty ==
    \/ UpdateStepFaulty
    \/ LoadCall
    \/ TickStep

\* The quota tracker on a file system that may hold a damaged quota file and
\* may refuse a write
SpecFaulty == InitFaulty /\ [][NextFaulty]_vars

----------------------------------------------------------------------------
(* More text operations *)

TOKEN == <<"t","o","k","e","n">>
JOB_ANALYSIS == <<"j","o","b","_","a","n","a","l","y","s","i","s">>

Whitespace == {" ", "\n", "\t", "\r"}
Digits == <<"0","1","2","3","4","5","6","7","8","9">>
IsDigit(c) == \E i \in 1..10 : Digits[i] = c
DigitValue(c) == (CHOOSE i \in 1..10 : Digits[i] = c) - 1

\* s.find(sub, start): the 0-based index of the first occurrence at or after
\* start, or -1
Find(sub, s, start) ==
    LET hits == {i \in start..(Len(s) - Len(sub)) : SubSeq(s, i + 1, i + Len(sub)) = sub}
    IN  IF hits = {} THEN -1 ELSE CHOOSE i \in hits : \A j \in hits : i <= j

\* s[start:end] for start >= 0; a negative end counts from the end of s
Slice(s, start, end) ==
    LET e0 == IF end < 0 THEN Len(s) + end ELSE end
        e == IF e0 < 0 THEN 0 ELSE IF e0 > Len(s) THEN Len(s) ELSE e0
    IN  IF start >= e THEN <<>> ELSE SubSeq(s, start + 1, e)

\* s.strip()
RECURSIVE LStrip(_)
LStrip(s) == IF s # <<>> /\ Head(s) \in Whitespace THEN LStrip(Tail(s)) ELSE s

RECURSIVE RStrip(_)
RStrip(s) ==
    IF s # <<>> /\ s[Len(s)] \in Whitespace THEN RStrip(SubSeq(s, 1, Len(s) - 1)) ELSE s

Strip(s) == RStrip(LStrip(s))

----------------------------------------------------------------------------
(* json.loads, for documents made of objects, arrays, strings, integers and    *)
(* true / false / null                                                         *)

JStr(s) == [t |-> "str", s |-> s]
JInt(n) == [t |-> "int", n |-> n]
JLit(name) == [t |-> "lit", name |-> name]
JArr(items) == [t |-> "arr", items |-> items]
JObj(keys, vals) == [t |-> "obj", keys |-> keys, vals |-> vals]

\* d[k] = v on a dict: a key already present keeps its place
DictSet(d, k, v) ==
    IF \E i \in 1..Len(d.keys) : d.keys[i] = k
    THEN JObj(d.keys, [i \in 1..Len(d.vals) |-> IF d.keys[i] = k THEN v ELSE d.vals[i]])
    ELSE JObj(Append(d.keys, k), Append(d.vals, v))

\* A parse step's result: whether it succeeded, the position after it, the value
Parsed(next, val) == [ok |-> TRUE, next |-> next, val |-> val]
ParseError == [ok |-> FALSE, next |-> 0, val |-> JLit("null")]

\* The first position at or after i that holds no whitespace
RECURSIVE SkipWs(_, _)
SkipWs(s, i) == IF i <= Len(s) /\ s[i] \in Whitespace THEN SkipWs(s, i + 1) ELSE i

\* Whether s holds the text w at position i
At(s, i, w) == i + Len(w) - 1 <= Len(s) /\ SubSeq(s, i, i + Len(w) - 1) = w

\* The printable ASCII characters, from code 32 to code 126 (the grave accent is
\* written out)
Ascii ==
    <<" ", "!", "\"", "#", "$", "%", "&", "'", "(", ")", "*", "+", ",", "-", ".", "/",
      "0", "1", "2", "3", "4", "5", "6", "7", "8", "9", ":", ";", "<", "=", ">", "?",
      "@", "A", "B", "C", "D", "E", "F", "G", "H", "I", "J", "K", "L", "M", "N", "O",
      "P", "Q", "R", "S", "T", "U", "V", "W", "X", "Y", "Z", "[", "\\", "]", "^", "_",
      "U+0060", "a", "b", "c", "d", "e", "f", "g", "h", "i", "j", "k", "l", "m", "n", "o",
      "p", "q", "r", "s", "t", "u", "v", "w", "x", "y", "z", "{", "|", "}", "~">>

\* The characters beyond ASCII that texts of the model contain, and their code points
NonAscii == {"U+00E9", "U+2022"}
CodeOf == [c \in NonAscii |-> IF c = "U+00E9" THEN 233 ELSE 8226]

\* A character json writes with \u that is in no text of the model
OtherChar == "U+FFFD"

\* The character of a code point
CharOfCode(n) ==
    IF \E c \in NonAscii : CodeOf[c] = n THEN CHOOSE c \in NonAscii : CodeOf[c] = n
    ELSE IF n = 8 THEN "U+0008"
    ELSE IF n = 9 THEN "\t"
    ELSE IF n = 10 THEN "\n"
    ELSE IF n = 12 THEN "\f"
    ELSE IF n = 13 THEN "\r"
    ELSE IF n \in 32..126 THEN Ascii[n - 31]
    ELSE OtherChar

HexDigits == <<"0", "1", "2", "3", "4", "5", "6", "7", "8", "9", "a", "b", "c", "d", "e", "f">>
HexUpper == <<"0", "1", "2", "3", "4", "5", "6", "7", "8", "9", "A", "B", "C", "D", "E", "F">>
IsHexDigit(c) == \E k \in 1..16 : c = HexDigits[k] \/ c = HexUpper[k]
HexDigitValue(c) == (CHOOSE k \in 1..16 : c = HexDigits[k] \/ c = HexUpper[k]) - 1

\* The character a backslash at i - 1 stands for, and the position after it
ParseEscape(s, i) ==
    IF i > Len(s) THEN ParseError
    ELSE IF s[i] \in {"\"", "\\", "/"} THEN Parsed(i + 1, s[i])
    ELSE IF s[i] = "n" THEN Parsed(i + 1, "\n")
    ELSE IF s[i] = "t" THEN Parsed(i + 1, "\t")
    ELSE IF s[i] = "r" THEN Parsed(i + 1, "\r")
    ELSE IF s[i] = "f" THEN Parsed(i + 1, "\f")
    ELSE IF s[i] = "b" THEN Parsed(i + 1, CharOfCode(8))
    ELSE IF s[i] = "u" /\ i + 4 <= Len(s) /\ \A k \in 1..4 : IsHexDigit(s[i + k])
         THEN Parsed(i + 5, CharOfCode(4096 * HexDigitValue(s[i + 1])
                                       + 256 * HexDigitValue(s[i + 2])
                                       + 16 * HexDigitValue(s[i + 3])
                                       + HexDigitValue(s[i + 4])))
    ELSE ParseError

\* The first position at or after i with a quote, a backslash or a control
\* character, or 0
NextSpecial(s, i) ==
    LET hits == {j \in i..Len(s) : s[j] \in {"\"", "\\", "\n", "\t", "\r", "\f"}}
    IN  IF hits = {} THEN 0 ELSE CHOOSE j \in hits : \A m \in hits : j <= m

\* A string literal from position i on, acc being what was read of it, j the next
\* special character: the literal ends at a quote, a backslash begins an escape,
\* a control character is an error
RECURSIVE ParseStringFrom(_, _, _, _)
ParseStringFrom(s, i, acc, j) ==
    IF j = 0 THEN ParseError
    ELSE IF s[j] = "\"" THEN Parsed(j + 1, JStr(acc \o SubSeq(s, i, j - 1)))
    ELSE IF s[j] = "\\" /\ ParseEscape(s, j + 1).ok
         THEN ParseStringFrom(s, ParseEscape(s, j + 1).next,
                              acc \o SubSeq(s, i, j - 1) \o <<ParseEscape(s, j + 1).val>>,
                              NextSpecial(s, ParseEscape(s, j + 1).next))
    ELSE ParseError

ParseString(s, i) ==
    IF i <= Len(s) /\ s[i] = "\""
    THEN ParseStringFrom(s, i + 1, <<>>, NextSpecial(s, i + 1))
    ELSE ParseError

\* The digits from position i on
RECURSIVE ParseDigits(_, _, _)
ParseDigits(s, i, acc) ==
    IF i <= Len(s) /\ IsDigit(s[i])
    THEN ParseDigits(s, i + 1, 10 * acc + DigitValue(s[i]))
    ELSE Parsed(i, JInt(acc))

\* An integer: an optional minus sign, then 0 or digits that do not start with 0
ParseInt(s, i) ==
    LET neg == i <= Len(s) /\ s[i] = "-"
        j == IF neg THEN i + 1 ELSE i
        d == ParseDigits(s, j, 0)
    IN  IF j > Len(s) \/ ~IsDigit(s[j]) THEN ParseError
        ELSE IF s[j] = "0" /\ d.next > j + 1 THEN Parsed(j + 1, JInt(0))
        ELSE IF neg THEN Parsed(d.next, JInt(0 - d.val.n))
        ELSE d

RECURSIVE ParseValue(_, _)
RECURSIVE ParseItems(_, _, _)
RECURSIVE ParseMembers(_, _, _)

\* After an array's "[" or ",": a value, then "," or "]"
ParseItems(s, i, acc) ==
    LET v == ParseValue(s, SkipWs(s, i))
        j == SkipWs(s, v.next)
    IN  IF ~v.ok THEN ParseError
        ELSE IF At(s, j, <<",">>) THEN ParseItems(s, j + 1, Append(acc, v.val))
        ELSE IF At(s, j, <<"]">>) THEN Parsed(j + 1, JArr(Append(acc, v.val)))
        ELSE ParseError

\* After an object's "{" or ",": a string key, ":", a value, then "," or "}"
ParseMembers(s, i, acc) ==
    LET k == ParseString(s, SkipWs(s, i))
        c == SkipWs(s, k.next)
        v == ParseValue(s, SkipWs(s, c + 1))
        j == SkipWs(s, v.next)
    IN  IF ~k.ok \/ ~At(s, c, <<":">>) THEN ParseError
        ELSE IF ~v.ok THEN ParseError
        ELSE IF At(s, j, <<",">>) THEN ParseMembers(s, j + 1, DictSet(acc, k.val.s, v.val))
        ELSE IF At(s, j, <<"}">>) THEN Parsed(j + 1, DictSet(acc, k.val.s, v.val))
        ELSE ParseError

ParseValue(s, i) ==
    IF i > Len(s) THEN ParseError
    ELSE IF s[i] = "{"
         THEN IF At(s, SkipWs(s, i + 1), <<"}">>)
              THEN Parsed(SkipWs(s, i + 1) + 1, JObj(<<>>, <<>>))
              ELSE ParseMembers(s, i + 1, JObj(<<>>, <<>>))
    ELSE IF s[i] = "["
         THEN IF At(s, SkipWs(s, i + 1), <<"]">>)
              THEN Parsed(SkipWs(s, i + 1) + 1, JArr(<<>>))
              ELSE ParseItems(s, i + 1, <<>>)
    ELSE IF s[i] = "\"" THEN ParseString(s, i)
    ELSE IF At(s, i, <<"n","u","l","l">>) THEN Parsed(i + 4, JLit("null"))
    ELSE IF At(s, i, <<"t","r","u","e">>) THEN Parsed(i + 4, JLit("true"))
    ELSE IF At(s, i, <<"f","a","l","s","e">>) THEN Parsed(i + 5, JLit("false"))
    ELSE ParseInt(s, i)

\* json.loads(s): the value, or a failure (json.JSONDecodeError)
JsonLoads(s) ==
    LET v == ParseValue(s, SkipWs(s, 1))
    IN  IF v.ok /\ SkipWs(s, v.next) = Len(s) + 1 THEN v ELSE ParseError

----------------------------------------------------------------------------
(* The Gemini provider and the content generators *)

\* Results of a call: a returned value, or a raised exception and its message
Returned(v) == [kind |-> "value", exc |-> "", msg |-> <<>>, val |-> v]
Raised(exc, msg) == [kind |-> "raised", exc |-> exc, msg |-> msg, val |-> JLit("null")]
NoResult == [kind |-> "none", exc |-> "", msg |-> <<>>, val |-> JLit("null")]

\* What the Gemini SDK does on one generate_content call: it answers with a text,
\* or raises with a message
SdkOk(text) == [ok |-> TRUE, text |-> text]
SdkFail(msg) == [ok |-> FALSE, text |-> msg]

SdkQuota == <<"Q","u","o","t","a"," ","e","x","c","e","e","d","e","d">>
SdkToken == <<"m","a","x"," ","T","O","K","E","N","S">>
SdkTimeout == <<"t","i","m","e","o","u","t">>

\* Replies of the model: a JSON object with the four sections, a JSON list, a JSON
\* object with one section, a JSON object cut short, section headers in plain
\* text, and an apology
ReplyFull == <<"{","\"","s","u","m","m","a","r","y","\"",":","\"","a","\"",",","\"","s","k","i","l","l","s","\"",":","\"","b","\"",",","\"","e","x","p","e","r","i","e","n","c","e","\"",":","\"","c","\"",",","\"","c","o","v","e","r","_","l","e","t","t","e","r","\"",":","\"","d","\"","}">>
ReplyList == <<"[","]">>
ReplyPartial == <<"{","\"","s","u","m","m","a","r","y","\"",":","\"","a","\"","}">>
ReplyTruncated == <<"{","\"","s","u","m","m","a","r","y","\"",":","\"","a","\"">>
ReplyHeaders == <<"S","u","m","m","a","r","y",":"," ","a","\n","S","K","I","L","L","S",":"," ","b">>
ReplySorry == <<"s","o","r","r","y">>
Replies == {ReplyFull, ReplyList, ReplyPartial, ReplyTruncated, ReplyHeaders, ReplySorry}

SdkOutcomes ==
    {SdkOk(r) : r \in Replies} \cup {SdkFail(m) : m \in {SdkQuota, SdkToken, SdkTimeout}}

\* Job descriptions the user pastes
JobDev == <<"d","e","v">>
JobWithKey == <<"s","e","e"," ","j","o","b","_","a","n","a","l","y","s","i","s">>
JobUpperKey == <<"J","o","b","_","A","n","a","l","y","s","i","s">>
JobDescriptions == {JobDev, JobWithKey, JobUpperKey}

\* The part of the prompt templates that embeds the job description
PromptBody(jd) ==
    <<"J","O","B"," ","D","E","S","C","R","I","P","T","I","O","N",":"," ">> \o jd \o
    <<"\n","J","O","B"," ","A","N","A","L","Y","S","I","S",":"," ","{","}","\n">>

BatchMaxTokens == 3000
SectionsMaxTokens == 2000
SectionMaxTokens == 800
FallbackMaxTokens == 1000

GeminiPrefix == <<"G","e","m","i","n","i"," ","A","P","I"," ","e","r","r","o","r",":"," ">>
BatchFailPrefix == <<"F","a","i","l","e","d"," ","t","o"," ","g","e","n","e","r","a","t","e"," ","b","a","t","c","h"," ","c","o","n","t","e","n","t",":"," ">>
SectionsFailPrefix == <<"F","a","i","l","e","d"," ","t","o"," ","g","e","n","e","r","a","t","e"," ","r","e","s","u","m","e"," ","s","e","c","t","i","o","n","s",":"," ">>
SectionFailPrefix == <<"F","a","i","l","e","d"," ","t","o"," ","g","e","n","e","r","a","t","e"," ","s","k","i","l","l","s",":"," ">>
FallbackPrefix == <<"G","o","o","g","l","e"," ","G","e","m","i","n","i"," ","e","r","r","o","r",":"," ">>
\* A refusal that says nothing: not what the code raises
NoMessage == <<>>

\* The refusal of get_provider and generate_with_fallback
NotAvailable == <<"G","o","o","g","l","e"," ","G","e","m","i","n","i"," ","i","s"," ","n","o","t"," ","a","v","a","i","l","a","b","l","e","."," ","P","l","e","a","s","e"," ","c","h","e","c","k"," ","y","o","u","r"," ","A","P","I"," ","k","e","y",".">>
StrHasNoGet == <<"'","s","t","r","'"," ","o","b","j","e","c","t"," ","h","a","s"," ","n","o"," ","a","t","t","r","i","b","u","t","e"," ","'","g","e","t","'">>

\* One call of provider.generate: its arguments, and what the SDK did with it
\* (the text it answered with, or the message it raised with)
ProviderCall(prompt, max_tokens, o) ==
    [prompt |-> prompt, max_tokens |-> max_tokens, ok |-> o.ok, text |-> o.text]

\* GeminiProvider.generate: the text, or the SDK's error wrapped
GeminiGenerate(o) ==
    IF o.ok THEN Returned(JStr(o.text)) ELSE Raised("Exception", GeminiPrefix \o o.text)

\* Retrying whatever the message says: not what the code does
AnyMessage(msg) == TRUE

\* `"quota" in str(e).lower() or "token" in str(e).lower()`
IsRetryable(msg) == Contains(QUOTA, Lower(msg)) \/ Contains(TOKEN, Lower(msg))

\* CoverLetterGenerator._generate_with_retry: the provider calls made and the outcome
CoverGenerateWithRetry(prompt, max_tokens, o1, o2) ==
    LET first == GeminiGenerate(o1)
    IN  IF first.kind = "raised" /\ IsRetryable(first.msg)
        THEN [calls |-> <<ProviderCall(prompt, max_tokens, o1),
                          ProviderCall(prompt, max_tokens \div 2, o2)>>,
              out |-> GeminiGenerate(o2)]
        ELSE [calls |-> <<ProviderCall(prompt, max_tokens, o1)>>, out |-> first]

\* ResumeGenerator._generate_with_retry: before retrying, a prompt that contains
\* "job_analysis" is asked for prompt.get(...), which a str does not have
ResumeGenerateWithRetry(prompt, max_tokens, o1, o2) ==
    LET first == GeminiGenerate(o1)
    IN  IF first.kind = "raised" /\ IsRetryable(first.msg)
        THEN IF Contains(JOB_ANALYSIS, prompt)
             THEN [calls |-> <<ProviderCall(prompt, max_tokens, o1)>>,
                   out |-> Raised("AttributeError", StrHasNoGet)]
             ELSE [calls |-> <<ProviderCall(prompt, max_tokens, o1),
                               ProviderCall(prompt, max_tokens \div 2, o2)>>,
                   out |-> GeminiGenerate(o2)]
        ELSE [calls |-> <<ProviderCall(prompt, max_tokens, o1)>>, out |-> first]

SUMMARY == <<"s","u","m","m","a","r","y">>
SKILLS == <<"s","k","i","l","l","s">>
EXPERIENCE == <<"e","x","p","e","r","i","e","n","c","e">>
COVER_LETTER == <<"c","o","v","e","r","_","l","e","t","t","e","r">>

\* The three resume keys alone, with no cover_letter: not what the batch
\* fallback starts from
ThreeKeys == <<SUMMARY, SKILLS, EXPERIENCE>>

\* The keys of the two fallback dicts
BatchKeys == <<SUMMARY, SKILLS, EXPERIENCE, COVER_LETTER>>
SectionKeys == <<SUMMARY, SKILLS, EXPERIENCE>>

\* The fallback's value for one key: from the key's first occurrence to the next
\* line break, as response[start:end].strip()
SectionValue(response, key) ==
    LET low == Lower(response)
        start == Find(key, low, 0)
        end == Find(<<"\n">>, low, start)
    IN  IF Contains(key, low) THEN Strip(Slice(response, start, end)) ELSE <<>>

\* The except branch of _parse_batch_response / _parse_sections_response
FallbackSections(response, keys) ==
    JObj(keys, [i \in 1..Len(keys) |-> JStr(SectionValue(response, keys[i]))])

\* CoverLetterGenerator._parse_batch_response
ParseBatchResponse(response) ==
    LET j == JsonLoads(response)
    IN  IF j.ok THEN j.val ELSE FallbackSections(response, BatchKeys)

\* ResumeGenerator._parse_sections_response
ParseSectionsResponse(response) ==
    LET j == JsonLoads(response)
    IN  IF j.ok THEN j.val ELSE FallbackSections(response, SectionKeys)

\* CoverLetterGenerator.generate_batch_resume_and_cover_letter
CoverBatchResult(jd, o1, o2) ==
    LET g == CoverGenerateWithRetry(PromptBody(jd), BatchMaxTokens, o1, o2)
    IN  [calls |-> g.calls,
         out |-> IF g.out.kind = "raised"
                 THEN Raised("Exception", BatchFailPrefix \o g.out.msg)
                 ELSE Returned(ParseBatchResponse(g.out.val.s))]

\* ResumeGenerator.generate_resume_sections
ResumeSectionsResult(jd, o1, o2) ==
    LET g == ResumeGenerateWithRetry(PromptBody(jd), SectionsMaxTokens, o1, o2)
    IN  [calls |-> g.calls,
         out |-> IF g.out.kind = "raised"
                 THEN Raised("Exception", SectionsFailPrefix \o g.out.msg)
                 ELSE Returned(ParseSectionsResponse(g.out.val.s))]

\* ResumeGenerator.generate_section("skills", ...)
ResumeSectionResult(jd, o1, o2) ==
    LET g == ResumeGenerateWithRetry(PromptBody(jd), SectionMaxTokens, o1, o2)
    IN  [calls |-> g.calls,
         out |-> IF g.out.kind = "raised"
                 THEN Raised("Exception", SectionFailPrefix \o g.out.msg)
                 ELSE g.out]

\* The three generator calls on every input of the model, computed once
CoverBatchResults ==
    [jd \in JobDescriptions, o1 \in SdkOutcomes, o2 \in SdkOutcomes |->
        CoverBatchResult(jd, o1, o2)]

ResumeSectionsResults ==
    [jd \in JobDescriptions, o1 \in SdkOutcomes, o2 \in SdkOutcomes |->
        ResumeSectionsResult(jd, o1, o2)]

ResumeSectionResults ==
    [jd \in JobDescriptions, o1 \in SdkOutcomes, o2 \in SdkOutcomes |->
        ResumeSectionResult(jd, o1, o2)]

----------------------------------------------------------------------------
(* Actions of the generators, the manager and the Generate page *)

\* A direct call of generate_batch_resume_and_cover_letter
CoverBatch(jd, o1, o2) ==
    LET r == CoverBatchResults[jd, o1, o2]
    IN  /\ hasKey
        /\ pcalls' = r.calls
        /\ gresult' = r.out
        /\ UNCHANGED <<hasKey, session>>
        /\ UNCHANGED <<docVars, runVars>>
        /\ UNCHANGED quotaVars

\* A direct call of generate_resume_sections
ResumeSections(jd, o1, o2) ==
    LET r == ResumeSectionsResults[jd, o1, o2]
    IN  /\ hasKey
        /\ pcalls' = r.calls
        /\ gresult' = r.out
        /\ UNCHANGED <<hasKey, session>>
        /\ UNCHANGED <<docVars, runVars>>
        /\ UNCHANGED quotaVars

\* A direct call of generate_section
ResumeSection(jd, o1, o2) ==
    LET r == ResumeSectionResults[jd, o1, o2]
    IN  /\ hasKey
        /\ pcalls' = r.calls
        /\ gresult' = r.out
        /\ UNCHANGED <<hasKey, session>>
        /\ UNCHANGED <<docVars, runVars>>
        /\ UNCHANGED quotaVars

\* The Generate button of show_generate_documents: the batch call goes to the
\* provider that get_provider() handed out; the result is kept in the session;
\* on an error that mentions "quota" the page reads get_quota_info()
GenerateButton(jd, o1, o2) ==
    LET r == CoverBatchResults[jd, o1, o2]
        u == LoadQuotaUsage(qfile, now)
        asks == r.out.kind = "raised" /\ Contains(QUOTA, Lower(r.out.msg))
    IN  /\ hasKey
        /\ pcalls' = r.calls
        /\ gresult' = IF r.out.kind = "raised" THEN NoResult ELSE r.out
        /\ session' = IF r.out.kind = "raised" THEN session ELSE r.out.val
        /\ info' = IF asks /\ QuotaInfoRaises(u) = "none" THEN QuotaInfo(u, now) ELSE NoInfo
        /\ raised' = IF asks THEN QuotaInfoRaises(u) ELSE "none"
        /\ loaded' = NonObject
        /\ UNCHANGED <<hasKey, now, ticks, qfile, calls, succLog, recorded>>
        /\ UNCHANGED <<docVars, runVars>>

\* AIManager.generate_with_fallback(prompt): the one path that meters its call
GenerateWithFallback(jd, o) ==
    LET r == GeminiGenerate(o)
    IN  IF hasKey
        THEN /\ QuotaUpdate(o.ok, IF o.ok THEN None ELSE Some(r.msg), TRUE)
             /\ pcalls' = <<ProviderCall(PromptBody(jd), FallbackMaxTokens, o)>>
             /\ gresult' = IF raised' # "none" THEN Raised(raised', <<>>)
                           ELSE IF o.ok THEN r
                           ELSE Raised("Exception", FallbackPrefix \o r.msg)
             /\ UNCHANGED <<hasKey, session>>
             /\ UNCHANGED <<docVars, runVars>>
        ELSE /\ pcalls' = <<>>
             /\ gresult' = Raised("Exception", NotAvailable)
             /\ UNCHANGED <<hasKey, session>>
             /\ UNCHANGED <<docVars, runVars>>
             /\ UNCHANGED quotaVars

\* The generators are built on the provider of a manager that holds one
InitGen == InitFresh

\* The page and the manager, with the API key set or not
InitApp ==
    /\ now = 0
    /\ ticks = 0
    /\ qfile = AbsentFile
    /\ raised = "none"
    /\ info = NoInfo
    /\ loaded = NonObject
    /\ calls = 0
    /\ succLog = <<>>
    /\ recorded = <<>>
    /\ hasKey \in BOOLEAN
    /\ pcalls = <<>>
    /\ gresult = NoResult
    /\ session = NoSession
    /\ InitDocs

CoverBatchStep ==
    \E jd \in JobDescriptions, o1 \in SdkOutcomes, o2 \in SdkOutcomes : CoverBatch(jd, o1, o2)

ResumeSectionsStep ==
    \E jd \in JobDescriptions, o1 \in SdkOutcomes, o2 \in SdkOutcomes : ResumeSections(jd, o1, o2)

ResumeSectionStep ==
    \E jd \in JobDescriptions, o1 \in SdkOutcomes, o2 \in SdkOutcomes : ResumeSection(jd, o1, o2)

GenerateButtonStep ==
    \E jd \in JobDescriptions, o1 \in SdkOutcomes, o2 \in SdkOutcomes : GenerateButton(jd, o1, o2)

GenerateWithFallbackStep ==
    \E jd \in JobDescriptions, o \in SdkOutcomes : GenerateWithFallback(jd, o)

NextGen ==
    \/ CoverBatchStep
    \/ ResumeSectionsStep
    \/ ResumeSectionStep

\* The content generators, called directly
SpecGen == InitGen /\ [][NextGen]_vars

NextApp ==
    \/ GenerateButtonStep
    \/ GenerateWithFallbackStep

\* The Generate page and the manager's metered call
SpecApp == InitApp /\ [][NextApp]_vars

----------------------------------------------------------------------------
(* Properties of the quota tracker *)

\* The persisted record, when the quota file holds one
usage == qfile.doc

\* How many successful calls the log holds at or after time t
SuccessesSince(t) == Cardinality({i \in DOMAIN succLog : succLog[i] >= t})

\* C1: when N calls with success=True have been made since the minute window
\* began with a counter of 0, the persisted minute_requests is N, beyond 15 as
\* well, and get_quota_info reports minute_remaining = max(0, 15 - N).
C1_NoHardCap ==
    qfile.kind = "json" =>
        LET N == SuccessesSince(usage.last_minute_reset)
        IN  /\ usage.minute_requests = N
            /\ info.valid => info.minute_remaining = (IF N >= 15 THEN 0 ELSE 15 - N)

C1_Witness ==
    /\ qfile.kind = "json"
    /\ usage.minute_requests > 15
    /\ SuccessesSince(usage.last_minute_reset) > 15
    /\ info.valid
    /\ info.minute_remaining = 0

\* What an _update_quota_usage(success, ...) call at time t makes of a counter c
\* whose window of length w began at time r: the counter and the window start
Rolled(c, r, t, w, success) ==
    IF t - r >= w
    THEN <<IF success THEN 1 ELSE 0, t>>
    ELSE <<IF success THEN c + 1 ELSE c, r>>

\* C2: each _update_quota_usage call applies the rollover lazily: with 60 seconds
\* or more (exactly 60 included) since last_minute_reset the minute counter
\* restarts from 0 before the increment and last_minute_reset becomes now;
\* with less, the counter is only incremented and the timestamp kept. The same
\* for the daily counter with 86400 seconds, independently.
C2_LazyRollover ==
    [][\A success \in BOOLEAN, error \in ErrorArgs :
          (qfile.kind = "json" /\ UpdateQuotaUsage(success, error, TRUE)) =>
              /\ <<usage.minute_requests, usage.last_minute_reset>>' =
                     Rolled(usage.minute_requests, usage.last_minute_reset, now, 60, success)
              /\ <<usage.daily_requests, usage.last_daily_reset>>' =
                     Rolled(usage.daily_requests, usage.last_daily_reset, now, 86400, success)
      ]_vars

\* A failed call has rolled both windows over at the very end of a day window
C2_Witness ==
    /\ qfile.kind = "json"
    /\ usage.last_daily_reset = 86400
    /\ usage.last_minute_reset = 86400
    /\ usage.daily_requests = 0
    /\ usage.minute_requests = 0
    /\ succLog # <<>>

\* The last n entries of a sequence
LastN(s, n) == IF Len(s) > n THEN [i \in 1..n |-> s[Len(s) - n + i]] ELSE s

\* C3: quota_errors never holds more than 10 entries, and it holds the most
\* recently recorded ones in insertion order: the oldest is evicted first.
C3_ErrorsBounded ==
    qfile.kind = "json" =>
        /\ Len(usage.quota_errors) <= 10
        /\ usage.quota_errors = LastN(recorded, 10)

C3_Witness ==
    /\ qfile.kind = "json"
    /\ Len(recorded) > 10
    /\ Len(usage.quota_errors) = 10
    /\ usage.quota_errors[10].timestamp # usage.quota_errors[1].timestamp

\* The error arguments that are non-empty and contain "quota" in some case
QuotaArgs == {Some(ErrNoQuotaLeft)}

\* C4: a call with success=False never increments a counter (a counter changes
\* only by being rolled over to 0), and it appends one entry to quota_errors
\* exactly when the error is non-empty and contains "quota" in any case.
C4_FailureFrame ==
    [][\A error \in ErrorArgs :
          (qfile.kind = "json" /\ UpdateQuotaUsage(FALSE, error, TRUE)) =>
              /\ usage.minute_requests' \in {usage.minute_requests, 0}
              /\ usage.daily_requests' \in {usage.daily_requests, 0}
              /\ usage.minute_requests' # usage.minute_requests
                     => now - usage.last_minute_reset >= 60
              /\ usage.daily_requests' # usage.daily_requests
                     => now - usage.last_daily_reset >= 86400
              /\ usage.quota_errors' =
                     IF error \in QuotaArgs
                     THEN LastN(Append(usage.quota_errors,
                                       [timestamp |-> now, error |-> error.val]), 10)
                     ELSE usage.quota_errors
      ]_vars

\* Only failed calls have been made, and one of them recorded a quota error
C4_Witness ==
    /\ qfile.kind = "json"
    /\ succLog = <<>>
    /\ Len(usage.quota_errors) = 1
    /\ usage.minute_requests = 0

\* C6: get_quota_info reports remaining = max(0, limit - used) for both windows,
\* never negative; last_quota_error is the last element of quota_errors, or None;
\* it does not write the quota file; and a second call with no update in between
\* reports the same counters.
C6_QuotaInfoPure ==
    [][GetQuotaInfo =>
          LET daily == IF qfile.kind = "json" THEN usage.daily_requests ELSE 0
              minute == IF qfile.kind = "json" THEN usage.minute_requests ELSE 0
              errs == IF qfile.kind = "json" THEN usage.quota_errors ELSE <<>>
          IN  /\ qfile' = qfile
              /\ info'.valid
              /\ info'.daily_used = daily
              /\ info'.minute_used = minute
              /\ info'.daily_remaining = (IF daily > 1500 THEN 0 ELSE 1500 - daily)
              /\ info'.minute_remaining = (IF minute > 15 THEN 0 ELSE 15 - minute)
              /\ info'.last_quota_error =
                     (IF errs = <<>> THEN None ELSE Some(errs[Len(errs)]))
              /\ info.valid =>
                     /\ info'.daily_used = info.daily_used
                     /\ info'.minute_used = info.minute_used
                     /\ info'.daily_remaining = info.daily_remaining
                     /\ info'.minute_remaining = info.minute_remaining
      ]_vars

\* Both counters are over their limits and get_quota_info has reported on them
C6_Witness ==
    /\ qfile.kind = "json"
    /\ usage.daily_requests > 1500
    /\ usage.minute_requests > 15
    /\ info.valid
    /\ info.daily_remaining = 0
    /\ info.minute_remaining = 0
    /\ info.last_quota_error.some

\* C5: _update_quota_usage never raises, whatever the quota file holds and whether
\* or not it can be written.
C5_UpdateNeverRaises ==
    [][\A success \in BOOLEAN, error \in ErrorArgs, writable \in BOOLEAN :
          UpdateQuotaUsage(success, error, writable) => raised' = "none"
      ]_vars

\* C7: when the quota file is absent, unreadable or not JSON, _load_quota_usage
\* returns a zeroed record stamped with the current time in both reset fields, so
\* the next update starts from scratch and does not fail.
C7_FreshOnUnreadable ==
    [][qfile.kind \in {"absent", "unreadable", "garbage"} =>
          /\ LoadCall =>
                 loaded' = [isdict |-> TRUE, has |-> Fields, daily_requests |-> 0,
                            minute_requests |-> 0, last_minute_reset |-> now,
                            last_daily_reset |-> now, quota_errors |-> <<>>]
          /\ \A success \in BOOLEAN, error \in ErrorArgs, writable \in BOOLEAN :
                 UpdateQuotaUsage(success, error, writable) =>
                     /\ raised' = "none"
                     /\ writable =>
                            /\ qfile'.kind = "json"
                            /\ usage'.minute_requests = (IF success THEN 1 ELSE 0)
                            /\ usage'.daily_requests = (IF success THEN 1 ELSE 0)
                            /\ usage'.last_minute_reset = now
                            /\ usage'.last_daily_reset = now
                            /\ Len(usage'.quota_errors) = (IF error \in QuotaArgs THEN 1 ELSE 0)
      ]_vars

\* _load_quota_usage has answered for a file that is not JSON, after time has passed
C7_Witness ==
    /\ qfile.kind = "garbage"
    /\ now > 0
    /\ loaded.isdict
    /\ loaded.last_minute_reset = now

----------------------------------------------------------------------------
(* Properties of the generators and the Generate page *)

\* The last provider call of the last generator call
lastCall == pcalls[Len(pcalls)]

\* C8: in both content generators, when the first provider call fails with a
\* message containing "quota" or "token" in any case, exactly one further call
\* is made, with max_tokens halved by integer division; its result is returned
\* if it succeeds, and its failure propagates if it fails, with no third call.
C8_RetryOnceHalved ==
    (pcalls # <<>> /\ ~pcalls[1].ok /\ IsRetryable(GeminiPrefix \o pcalls[1].text)) =>
        /\ Len(pcalls) = 2
        /\ pcalls[2].max_tokens = pcalls[1].max_tokens \div 2
        /\ pcalls[2].ok => gresult.kind = "value"
        /\ ~pcalls[2].ok =>
               /\ gresult.kind = "raised"
               /\ Contains(GeminiPrefix \o pcalls[2].text, gresult.msg)

\* The cover letter generator has retried with 1500 tokens and returned the reply
C8_Witness ==
    /\ Len(pcalls) = 2
    /\ pcalls[1].max_tokens = BatchMaxTokens
    /\ pcalls[2].max_tokens = 1500
    /\ pcalls[2].ok
    /\ gresult.kind = "value"

\* C9: for every reply that cannot be parsed as JSON,
\* generate_batch_resume_and_cover_letter returns a dict whose keys are exactly
\* summary, skills, experience and cover_letter, each mapped to a string
\* (possibly empty); the parse failure raises nothing.
C9_FallbackFourKeys ==
    (/\ pcalls # <<>>
     /\ pcalls[1].max_tokens = BatchMaxTokens
     /\ lastCall.ok
     /\ ~JsonLoads(lastCall.text).ok) =>
        /\ gresult.kind = "value"
        /\ gresult.val.t = "obj"
        /\ Len(gresult.val.keys) = 4
        /\ {gresult.val.keys[i] : i \in 1..4} = {SUMMARY, SKILLS, EXPERIENCE, COVER_LETTER}
        /\ \A i \in 1..4 : gresult.val.vals[i].t = "str"

\* The batch call has answered a reply of plain section headers: the summary line
\* is found, the skills line at the very end loses its last character, and the
\* sections that are not named are empty
C9_Witness ==
    /\ pcalls # <<>>
    /\ pcalls[1].max_tokens = BatchMaxTokens
    /\ lastCall.ok
    /\ lastCall.text = ReplyHeaders
    /\ gresult.kind = "value"
    /\ gresult.val.keys = <<SUMMARY, SKILLS, EXPERIENCE, COVER_LETTER>>
    /\ gresult.val.vals[1].s = <<"S","u","m","m","a","r","y",":"," ","a">>
    /\ gresult.val.vals[2].s = <<"S","K","I","L","L","S",":">>
    /\ gresult.val.vals[3].s = <<>>
    /\ gresult.val.vals[4].s = <<>>

\* The smaller of two numbers
Min(a, b) == IF a <= b THEN a ELSE b

\* C10: every provider call the Generate action issues is metered: each
\* successful call adds 1 to minute_requests and to daily_requests, and each
\* failed call whose message contains "quota" is appended to quota_errors, so the
\* persisted record reflects the calls the action made.
C10_GenerateMetered ==
    [][(pcalls' # <<>> /\ pcalls'[1].max_tokens = BatchMaxTokens) =>
          LET before == LoadQuotaUsage(qfile, now)
              served == {i \in DOMAIN pcalls' : pcalls'[i].ok}
              refused == {i \in DOMAIN pcalls' :
                             /\ ~pcalls'[i].ok
                             /\ IsQuotaError(Some(GeminiPrefix \o pcalls'[i].text))}
          IN  (served # {} \/ refused # {}) =>
                  /\ qfile'.kind = "json"
                  /\ usage'.minute_requests = before.minute_requests + Cardinality(served)
                  /\ usage'.daily_requests = before.daily_requests + Cardinality(served)
                  /\ Len(usage'.quota_errors) =
                         Min(10, Len(before.quota_errors) + Cardinality(refused))
      ]_vars

\* The Generate action has made a successful provider call and kept its result,
\* after the manager's own metered call had written the quota file
C10_Witness ==
    /\ pcalls # <<>>
    /\ pcalls[1].max_tokens = BatchMaxTokens
    /\ lastCall.ok
    /\ session # NoSession
    /\ qfile.kind = "json"
    /\ usage.daily_requests = 1

----------------------------------------------------------------------------
(* The pages of the app and the manager's entry points *)

TestMaxTokens == 5

HI == <<"H","i">>
TEST == <<"T","e","s","t">>
AVAILABLE == <<"a","v","a","i","l","a","b","l","e">>
ERROR == <<"e","r","r","o","r">>
RESPONSE == <<"r","e","s","p","o","n","s","e">>
ProviderNotInitialized == <<"P","r","o","v","i","d","e","r"," ","n","o","t"," ","i","n","i","t","i","a","l","i","z","e","d">>

\* GeminiProvider.is_available: a generate_content("Test") call, with the model's
\* default token limit
IsAvailableCalls == <<ProviderCall(TEST, 0, SdkOk(<<>>))>>

\* get_available_providers probing the provider with is_available: not what the
\* code does
AvailableProvidersProbing == IsAvailableCalls

\* The provider calls get_available_providers makes: it only looks at
\* self.provider
AvailableProvidersCalls == <<>>

\* The provider calls get_quota_info makes: it only reads the quota file
QuotaInfoCalls == <<>>

\* The sidebar of main(): a manager is built, get_available_providers is asked,
\* and get_quota_info is shown whether or not the provider is there
RenderSidebar ==
    LET u == LoadQuotaUsage(qfile, now)
    IN  /\ pcalls' = AvailableProvidersCalls \o QuotaInfoCalls
        /\ gresult' = NoResult
        /\ raised' = QuotaInfoRaises(u)
        /\ info' = IF QuotaInfoRaises(u) = "none" THEN QuotaInfo(u, now) ELSE NoInfo
        /\ loaded' = NonObject
        /\ UNCHANGED <<now, ticks, qfile, calls, succLog, recorded, hasKey, session>>
        /\ UNCHANGED <<docVars, runVars>>

\* show_generate_documents up to the buttons: get_available_providers, and with a
\* provider two get_provider calls, each asking get_available_providers again
RenderGeneratePage ==
    /\ pcalls' = IF hasKey
                 THEN AvailableProvidersCalls \o AvailableProvidersCalls
                          \o AvailableProvidersCalls
                 ELSE AvailableProvidersCalls
    /\ gresult' = NoResult
    /\ raised' = "none"
    /\ info' = NoInfo
    /\ loaded' = NonObject
    /\ UNCHANGED <<now, ticks, qfile, calls, succLog, recorded, hasKey, session>>
    /\ UNCHANGED <<docVars, runVars>>

\* AIManager.test_provider_connection, behind the Test Connection button
TestProviderConnection(o) ==
    LET r == GeminiGenerate(o)
    IN  IF hasKey
        THEN /\ QuotaUpdate(o.ok, IF o.ok THEN None ELSE Some(r.msg), TRUE)
             /\ pcalls' = <<ProviderCall(HI, TestMaxTokens, o)>>
             /\ gresult' = IF raised' # "none" THEN Raised(raised', <<>>)
                           ELSE IF o.ok
                           THEN Returned(JObj(<<AVAILABLE, RESPONSE>>,
                                              <<JLit("true"), r.val>>))
                           ELSE Returned(JObj(<<AVAILABLE, ERROR>>,
                                              <<JLit("false"), JStr(r.msg)>>))
             /\ UNCHANGED <<hasKey, session>>
             /\ UNCHANGED <<docVars, runVars>>
        ELSE /\ pcalls' = <<>>
             /\ gresult' = Returned(JObj(<<AVAILABLE, ERROR>>,
                                         <<JLit("false"), JStr(ProviderNotInitialized)>>))
             /\ UNCHANGED <<hasKey, session>>
             /\ UNCHANGED <<docVars, runVars>>
             /\ UNCHANGED quotaVars

\* AIManager.get_provider()
GetProvider ==
    /\ pcalls' = AvailableProvidersCalls
    /\ gresult' = IF hasKey THEN Returned(JLit("provider"))
                  ELSE Raised("ValueError", NotAvailable)
    /\ UNCHANGED <<hasKey, session>>
    /\ UNCHANGED <<docVars, runVars>>
    /\ UNCHANGED quotaVars

TestProviderConnectionStep == \E o \in SdkOutcomes : TestProviderConnection(o)

NextPages ==
    \/ RenderSidebar
    \/ RenderGeneratePage
    \/ TestProviderConnectionStep
    \/ GetProvider
    \/ GenerateButtonStep
    \/ GenerateWithFallbackStep

\* The pages, their buttons and the manager's entry points, with the API key set
\* or not
SpecPages == InitApp /\ [][NextPages]_vars

----------------------------------------------------------------------------
(* Properties of the pages and of the manager without a credential *)

\* C11: rendering a page makes no provider call and consumes no quota: the
\* sidebar status and get_available_providers call nothing, so a step that made
\* a provider call is never a rendering step but one of the explicit actions.
C11_RenderMakesNoCall ==
    [][(RenderSidebar \/ RenderGeneratePage) =>
          /\ pcalls' = <<>>
          /\ UNCHANGED <<qfile, calls, succLog, recorded>>
      ]_vars

\* The sidebar has been rendered, with a provider, after one metered call: it shows
\* the quota and has called nothing
C11_Witness ==
    /\ hasKey
    /\ pcalls = <<>>
    /\ info.valid
    /\ info.daily_used = 1
    /\ qfile.kind = "json"

\* What the refusals say
NOT_AVAILABLE == <<"G","o","o","g","l","e"," ","G","e","m","i","n","i"," ","i","s"," ","n","o","t"," ","a","v","a","i","l","a","b","l","e">>

\* C12: without a provider every generation entry point refuses and does nothing
\* else: generate_with_fallback and get_provider raise with a message saying that
\* Google Gemini is not available, test_provider_connection returns
\* available = False, and none of them calls the provider or changes the quota
\* record.
C12_RefusesWithoutKey ==
    [][~hasKey =>
          /\ (TestProviderConnectionStep \/ GetProvider \/ GenerateWithFallbackStep) =>
                 /\ pcalls' = <<>>
                 /\ UNCHANGED <<qfile, calls, succLog, recorded>>
          /\ (GetProvider \/ GenerateWithFallbackStep) =>
                 /\ gresult'.kind = "raised"
                 /\ Contains(NOT_AVAILABLE, gresult'.msg)
          /\ TestProviderConnectionStep =>
                 /\ gresult'.kind = "value"
                 /\ gresult'.val.keys[1] = AVAILABLE
                 /\ gresult'.val.vals[1] = JLit("false")
                 /\ gresult'.val.vals[2].s # <<>>
      ]_vars

\* Without a provider, a generation entry point has refused and the quota file
\* has still not been created
C12_Witness ==
    /\ ~hasKey
    /\ gresult.kind = "raised"
    /\ Contains(NOT_AVAILABLE, gresult.msg)
    /\ pcalls = <<>>
    /\ qfile = AbsentFile

----------------------------------------------------------------------------
(* The tables of JobAnalysisGuidelines *)

\* EXPERIENCE_LEVELS: the levels in dict order, each with its keywords
EXPERIENCE_LEVELS ==
    <<[name |-> <<"e","n","t","r","y","_","l","e","v","e","l">>,
       keywords |-> <<<<"e","n","t","r","y"," ","l","e","v","e","l">>,
                        <<"j","u","n","i","o","r">>,
                        <<"0","-","2"," ","y","e","a","r","s">>,
                        <<"f","r","e","s","h"," ","g","r","a","d","u","a","t","e">>,
                        <<"n","e","w"," ","g","r","a","d">>,
                        <<"a","s","s","o","c","i","a","t","e">>>>],
      [name |-> <<"m","i","d","_","l","e","v","e","l">>,
       keywords |-> <<<<"m","i","d","-","l","e","v","e","l">>,
                        <<"i","n","t","e","r","m","e","d","i","a","t","e">>,
                        <<"3","-","5"," ","y","e","a","r","s">>,
                        <<"e","x","p","e","r","i","e","n","c","e","d">>,
                        <<"s","p","e","c","i","a","l","i","s","t">>>>],
      [name |-> <<"s","e","n","i","o","r","_","l","e","v","e","l">>,
       keywords |-> <<<<"s","e","n","i","o","r">>,
                        <<"l","e","a","d">>,
                        <<"p","r","i","n","c","i","p","a","l">>,
                        <<"5","+"," ","y","e","a","r","s">>,
                        <<"e","x","p","e","r","i","e","n","c","e","d"," ","p","r","o","f","e","s","s","i","o","n","a","l">>>>],
      [name |-> <<"e","x","e","c","u","t","i","v","e">>,
       keywords |-> <<<<"e","x","e","c","u","t","i","v","e">>,
                        <<"d","i","r","e","c","t","o","r">>,
                        <<"m","a","n","a","g","e","r">>,
                        <<"h","e","a","d"," ","o","f">>,
                        <<"v","p">>,
                        <<"c","t","o">>,
                        <<"c","e","o">>>>]>>

\* INDUSTRY_PATTERNS: the industries in dict order, each with its keywords
INDUSTRY_PATTERNS ==
    <<[name |-> <<"t","e","c","h","n","o","l","o","g","y">>,
       keywords |-> <<<<"s","o","f","t","w","a","r","e">>,
                        <<"t","e","c","h">>,
                        <<"i","t">>,
                        <<"d","e","v","e","l","o","p","m","e","n","t">>,
                        <<"p","r","o","g","r","a","m","m","i","n","g">>,
                        <<"c","o","d","i","n","g">>,
                        <<"e","n","g","i","n","e","e","r","i","n","g">>>>],
      [name |-> <<"f","i","n","a","n","c","e">>,
       keywords |-> <<<<"f","i","n","a","n","c","e">>,
                        <<"b","a","n","k","i","n","g">>,
                        <<"i","n","v","e","s","t","m","e","n","t">>,
                        <<"t","r","a","d","i","n","g">>,
                        <<"f","i","n","t","e","c","h">>,
                        <<"f","i","n","a","n","c","i","a","l">>>>],
      [name |-> <<"h","e","a","l","t","h","c","a","r","e">>,
       keywords |-> <<<<"h","e","a","l","t","h","c","a","r","e">>,
                        <<"m","e","d","i","c","a","l">>,
                        <<"p","h","a","r","m","a","c","e","u","t","i","c","a","l">>,
                        <<"b","i","o","t","e","c","h">>,
                        <<"c","l","i","n","i","c","a","l">>>>],
      [name |-> <<"m","a","r","k","e","t","i","n","g">>,
       keywords |-> <<<<"m","a","r","k","e","t","i","n","g">>,
                        <<"a","d","v","e","r","t","i","s","i","n","g">>,
                        <<"b","r","a","n","d">>,
                        <<"d","i","g","i","t","a","l"," ","m","a","r","k","e","t","i","n","g">>,
                        <<"c","a","m","p","a","i","g","n">>>>],
      [name |-> <<"s","a","l","e","s">>,
       keywords |-> <<<<"s","a","l","e","s">>,
                        <<"b","u","s","i","n","e","s","s"," ","d","e","v","e","l","o","p","m","e","n","t">>,
                        <<"a","c","c","o","u","n","t"," ","m","a","n","a","g","e","m","e","n","t">>,
                        <<"r","e","v","e","n","u","e">>>>],
      [name |-> <<"c","o","n","s","u","l","t","i","n","g">>,
       keywords |-> <<<<"c","o","n","s","u","l","t","i","n","g">>,
                        <<"a","d","v","i","s","o","r","y">>,
                        <<"s","t","r","a","t","e","g","y">>,
                        <<"m","a","n","a","g","e","m","e","n","t"," ","c","o","n","s","u","l","t","i","n","g">>>>]>>

----------------------------------------------------------------------------
(* JobAnalyzer: the two classifiers *)

\* The upper-case letter of each lower-case letter
UpperOf == [c \in {LowerChars[i] : i \in 1..26} |->
               UpperChars[CHOOSE i \in 1..26 : LowerChars[i] = c]]

\* str.upper() on one character
UpperChar(c) == IF c \in DOMAIN UpperOf THEN UpperOf[c] ELSE c

IsLetter(c) == c \in DOMAIN UpperOf \/ c \in DOMAIN LowerOf

\* \w of the re module, on ASCII text
IsWordChar(c) == IsLetter(c) \/ IsDigit(c) \/ c = "_"

\* The text as it is: not what str.title() returns
NoTitle(s) == s

\* str.title(): a letter is upper-cased after a character that is not a letter,
\* and lower-cased after a letter
Title(s) ==
    [i \in 1..Len(s) |->
        IF i = 1 \/ ~IsLetter(s[i - 1]) THEN UpperChar(s[i]) ELSE LowerChar(s[i])]

\* s.replace(a, b) for single characters a and b
ReplaceChar(s, a, b) == [i \in 1..Len(s) |-> IF s[i] = a THEN b ELSE s[i]]

\* Whether s has a word character at position p
WordAt(s, p) == p \in 1..Len(s) /\ IsWordChar(s[p])

\* \b between positions p and p + 1 of s
Boundary(s, p) == WordAt(s, p) # WordAt(s, p + 1)

\* re.search(rf'\b{re.escape(kw)}\b', s)
WordMatch(kw, s) ==
    \E i \in 1..(Len(s) - Len(kw) + 1) :
        /\ SubSeq(s, i, i + Len(kw) - 1) = kw
        /\ Boundary(s, i - 1)
        /\ Boundary(s, i + Len(kw) - 1)

\* A level keyword looked for as a plain substring: not what the code does
LevelHitSubstring(kw, s) == Contains(kw, s)

\* line 154: the test of one experience-level keyword
LevelHit(kw, s) == WordMatch(kw, s)

\* An industry keyword looked for as a whole word: not what the code does
IndustryHitWord(kw, s) == WordMatch(kw, s)

\* line 167: the test of one industry keyword
IndustryHit(kw, s) == Contains(kw, s)

MID_LEVEL == <<"M","i","d"," ","L","e","v","e","l">>
GENERAL == <<"G","e","n","e","r","a","l">>

\* The loop of _determine_experience_level from level i on
RECURSIVE ScanLevels(_, _)
ScanLevels(text_lower, i) ==
    IF i > Len(EXPERIENCE_LEVELS) THEN MID_LEVEL
    ELSE IF \E k \in 1..Len(EXPERIENCE_LEVELS[i].keywords) :
                LevelHit(EXPERIENCE_LEVELS[i].keywords[k], text_lower)
         THEN Title(ReplaceChar(EXPERIENCE_LEVELS[i].name, "_", " "))
         ELSE ScanLevels(text_lower, i + 1)

\* JobAnalyzer._determine_experience_level
DetermineExperienceLevel(text) == ScanLevels(Lower(text), 1)

\* The loop of _identify_industry from industry i on
RECURSIVE ScanIndustries(_, _)
ScanIndustries(text_lower, i) ==
    IF i > Len(INDUSTRY_PATTERNS) THEN GENERAL
    ELSE IF \E k \in 1..Len(INDUSTRY_PATTERNS[i].keywords) :
                IndustryHit(INDUSTRY_PATTERNS[i].keywords[k], text_lower)
         THEN Title(INDUSTRY_PATTERNS[i].name)
         ELSE ScanIndustries(text_lower, i + 1)

\* JobAnalyzer._identify_industry
IdentifyIndustry(text) == ScanIndustries(Lower(text), 1)

\* The bullet character U+2022, which is written out here
BULLET == "U+2022"

\* The words job descriptions are made of in the model
JobWords ==
    {<<"j","u","n","i","o","r">>, <<"S","e","n","i","o","r">>, <<"s","e","n","i","o","r","i","t","y">>, <<"e","x","p","e","r","i","e","n","c","e","d">>, <<"d","i","r","e","c","t","o","r">>,
     <<"f","i","n","t","e","c","h">>, <<"p","a","t","i","e","n","t"," ","c","a","r","e">>, <<"b","a","n","k","i","n","g">>, <<"m","e","d","i","c","a","l">>, <<"b","r","a","n","d">>,
     <<"r","e","v","e","n","u","e">>, <<"a","d","v","i","s","o","r","y">>, <<"n","u","r","s","e">>}

MaxWords == 2

\* The job descriptions: up to MaxWords words, separated by a space
RECURSIVE TextsOf(_)
TextsOf(n) ==
    IF n = 0 THEN {<<>>}
    ELSE TextsOf(n - 1) \cup JobWords
             \cup {t \o <<" ">> \o w : t \in TextsOf(n - 1) \ {<<>>}, w \in JobWords}

JobTexts == TextsOf(MaxWords)

\* Job descriptions with punctuation: blank, a requirements sentence, and a
\* bulleted line with a quoted phrase and capitals
JobPostings ==
    {<<" ">>,
     <<"M","u","s","t"," ","h","a","v","e",":"," ","P","y","t","h","o","n",","," ","t","e","a","m"," ","l","e","a","d","e","r","s","h","i","p",";"," ","S","Q","L","."," ","5","+"," ","y","e","a","r","s"," ","o","f"," ","e","x","p","e","r","i","e","n","c","e">>,
     <<BULLET>> \o <<" ","\"","A","g","i","l","e","\""," ","T","E","A","M"," ","L","E","A","D">>}

JobDocs == JobTexts \cup JobPostings

----------------------------------------------------------------------------
(* JobAnalyzer: cleaning the text and the regular expressions of the extractors *)

\* The result of trying a pattern at one position: the position after the match
\* and what findall reports for it
Hit(next, val) == [ok |-> TRUE, next |-> next, val |-> val]
Miss == [ok |-> FALSE, next |-> 0, val |-> <<>>]

\* The smaller of two numbers
Least(a, b) == IF a <= b THEN a ELSE b

IsSpace(c) == c \in Whitespace
IsSpaceOrColon(c) == c \in Whitespace \/ c = ":"
IsSpaceOrDash(c) == c \in Whitespace \/ c = "-"
IsSpaceOrWord(c) == c \in Whitespace \/ IsWordChar(c)
IsUpper(c) == c \in DOMAIN LowerOf
IsUpperOrSpace(c) == IsUpper(c) \/ c \in Whitespace
NotPeriod(c) == c # "."
NotQuote(c) == c # "\""
NotBulletOrBreak(c) == c # BULLET /\ c # "\n"

\* The characters the second re.sub of _clean_text keeps
IsKept(c) == IsWordChar(c) \/ c \in Whitespace \/ c \in {"-", ".", ",", "!", "?", ":", ";", "(", ")"}

\* Where a greedy run of In-characters that starts at p stops: the first position
\* from p on that holds no In-character
RunEnd(s, p, In(_)) ==
    LET stops == {i \in p..(Len(s) + 1) : i = Len(s) + 1 \/ ~In(s[i])}
    IN  CHOOSE i \in stops : \A j \in stops : i <= j

\* A literal (given in lower case) at position p, under re.IGNORECASE
MatchLit(s, p, lit) ==
    /\ p >= 1
    /\ p + Len(lit) - 1 <= Len(s)
    /\ Lower(SubSeq(s, p, p + Len(lit) - 1)) = lit

\* re.findall: the matches found from position p on, each search starting where
\* the last match ended; at[i] is the pattern tried at position i
RECURSIVE FindAllFrom(_, _)
FindAllFrom(at, p) ==
    IF p > Len(at) THEN <<>>
    ELSE IF at[p].ok THEN <<at[p].val>> \o FindAllFrom(at, at[p].next)
    ELSE FindAllFrom(at, p + 1)

\* re.sub(r'\s+', ' ', text)
RECURSIVE CollapseSpaces(_)
CollapseSpaces(s) ==
    IF s = <<>> THEN <<>>
    ELSE IF IsSpace(s[1])
         THEN <<" ">> \o CollapseSpaces(SubSeq(s, RunEnd(s, 1, IsSpace), Len(s)))
         ELSE <<s[1]>> \o CollapseSpaces(Tail(s))

\* re.sub(r'[^\w\s\-\.\,\!\?\:\;\(\)]', '', text)
DropSpecial(s) == SelectSeq(s, IsKept)

\* JobAnalyzer._clean_text
CleanText(text) == Strip(DropSpecial(CollapseSpaces(text)))

\* re.split(r'[;,\n<bullet>]', section)
RECURSIVE SplitItems(_)
SplitItems(s) ==
    LET cuts == {i \in 1..Len(s) : s[i] \in {";", ",", "\n", BULLET}}
        c == CHOOSE i \in cuts : \A j \in cuts : i <= j
    IN  IF cuts = {} THEN <<s>>
        ELSE <<SubSeq(s, 1, c - 1)>> \o SplitItems(SubSeq(s, c + 1, Len(s)))

\* The items of the sections, stripped, those of more than 5 characters
RECURSIVE ItemsOf(_)
ItemsOf(sections) ==
    IF sections = <<>> THEN <<>>
    ELSE LET items == SplitItems(Head(sections))
             stripped == [i \in 1..Len(items) |-> Strip(items[i])]
             long(x) == Len(x) > 5
         IN  SelectSeq(stripped, long) \o ItemsOf(Tail(sections))

\* x[:n]
Take(x, n) == SubSeq(x, 1, Least(n, Len(x)))

\* [\s\:]*([^\.]+) after a section header that ends before position h: the
\* colons and spaces are skipped and the group runs up to the next period; when
\* nothing is left for the group, the last skipped character is given back to it
RestOfSection(s, h) ==
    LET q == RunEnd(s, h, IsSpaceOrColon)
    IN  IF q <= Len(s) /\ s[q] # "."
        THEN Hit(RunEnd(s, q, NotPeriod), SubSeq(s, q, RunEnd(s, q, NotPeriod) - 1))
        ELSE IF q > h THEN Hit(q, <<s[q - 1]>>)
        ELSE Miss

\* (?:header|...)[\s\:]*([^\.]+) at position p; heads are the alternatives in the
\* order the regular expression tries them
SectionAt(s, p, heads) ==
    LET ok == {k \in 1..Len(heads) :
                  MatchLit(s, p, heads[k]) /\ RestOfSection(s, p + Len(heads[k])).ok}
        k0 == CHOOSE k \in ok : \A j \in ok : k <= j
    IN  IF ok = {} THEN Miss ELSE RestOfSection(s, p + Len(heads[k0]))

\* requirements?|qualifications?|must have|should have
RequirementHeads ==
    <<<<"r","e","q","u","i","r","e","m","e","n","t","s">>, <<"r","e","q","u","i","r","e","m","e","n","t">>, <<"q","u","a","l","i","f","i","c","a","t","i","o","n","s">>, <<"q","u","a","l","i","f","i","c","a","t","i","o","n">>,
      <<"m","u","s","t"," ","h","a","v","e">>, <<"s","h","o","u","l","d"," ","h","a","v","e">>>>

\* responsibilities?|duties?|tasks?|role|position
ResponsibilityHeads ==
    <<<<"r","e","s","p","o","n","s","i","b","i","l","i","t","i","e","s">>, <<"r","e","s","p","o","n","s","i","b","i","l","i","t","i","e">>, <<"d","u","t","i","e","s">>, <<"d","u","t","i","e">>,
      <<"t","a","s","k","s">>, <<"t","a","s","k">>, <<"r","o","l","e">>, <<"p","o","s","i","t","i","o","n">>>>

\* JobAnalyzer._extract_requirements
ExtractRequirements(text) ==
    Take(ItemsOf(FindAllFrom([p \in 1..Len(text) |-> SectionAt(text, p, RequirementHeads)], 1)), 10)

\* JobAnalyzer._extract_responsibilities
ExtractResponsibilities(text) ==
    Take(ItemsOf(FindAllFrom([p \in 1..Len(text) |-> SectionAt(text, p, ResponsibilityHeads)], 1)), 10)

\* SKILL_CATEGORIES, flattened in dict order
AllSkills ==
    <<<<"P","y","t","h","o","n">>, <<"J","a","v","a">>, <<"J","a","v","a","S","c","r","i","p","t">>, <<"R","e","a","c","t">>,
      <<"A","n","g","u","l","a","r">>, <<"V","u","e">>, <<"N","o","d","e",".","j","s">>, <<"S","Q","L">>,
      <<"M","o","n","g","o","D","B">>, <<"A","W","S">>, <<"A","z","u","r","e">>, <<"D","o","c","k","e","r">>,
      <<"K","u","b","e","r","n","e","t","e","s">>, <<"G","i","t">>, <<"M","a","c","h","i","n","e"," ","L","e","a","r","n","i","n","g">>, <<"A","I">>,
      <<"D","a","t","a"," ","S","c","i","e","n","c","e">>, <<"L","e","a","d","e","r","s","h","i","p">>, <<"C","o","m","m","u","n","i","c","a","t","i","o","n">>, <<"P","r","o","b","l","e","m"," ","S","o","l","v","i","n","g">>,
      <<"T","e","a","m","w","o","r","k">>, <<"C","o","l","l","a","b","o","r","a","t","i","o","n">>, <<"P","r","o","j","e","c","t"," ","M","a","n","a","g","e","m","e","n","t">>, <<"A","g","i","l","e">>,
      <<"S","c","r","u","m">>, <<"I","n","n","o","v","a","t","i","o","n">>, <<"C","r","e","a","t","i","v","i","t","y">>, <<"A","n","a","l","y","t","i","c","a","l">>,
      <<"S","t","r","a","t","e","g","y">>, <<"A","n","a","l","y","s","i","s">>, <<"F","i","n","a","n","c","i","a","l"," ","m","o","d","e","l","i","n","g">>, <<"R","i","s","k"," ","m","a","n","a","g","e","m","e","n","t">>,
      <<"C","o","m","p","l","i","a","n","c","e">>, <<"M","a","r","k","e","t","i","n","g">>, <<"S","a","l","e","s">>, <<"C","u","s","t","o","m","e","r"," ","s","e","r","v","i","c","e">>,
      <<"O","p","e","r","a","t","i","o","n","s">>, <<"S","u","p","p","l","y"," ","c","h","a","i","n">>>>

\* JobAnalyzer._extract_skills: the set of the known skills that occur as words,
\* in any case; the list made of the set has no defined order
ExtractSkills(text) ==
    {AllSkills[i] : i \in {j \in 1..Len(AllSkills) : WordMatch(Lower(AllSkills[j]), Lower(text))}}

DegreeWords ==
    <<<<"b","a","c","h","e","l","o","r">>, <<"m","a","s","t","e","r">>, <<"p","h","d">>, <<"d","e","g","r","e","e">>, <<"d","i","p","l","o","m","a">>, <<"c","e","r","t","i","f","i","c","a","t","e">>>>

\* (?:Bachelor|Master|PhD|Degree|Diploma|Certificate)[\s\w]* at position p
DegreeAt(s, p) ==
    LET ok == {k \in 1..Len(DegreeWords) : MatchLit(s, p, DegreeWords[k])}
        k0 == CHOOSE k \in ok : \A j \in ok : k <= j
        e == RunEnd(s, p + Len(DegreeWords[k0]), IsSpaceOrWord)
    IN  IF ok = {} THEN Miss ELSE Hit(e, SubSeq(s, p, e - 1))

\* (?:\d+[\s\-]*years?[\s\-]*of[\s\-]*experience) at position p
YearsAt(s, p) ==
    LET a == RunEnd(s, RunEnd(s, p, IsDigit), IsSpaceOrDash)
        b == IF MatchLit(s, a + 4, <<"s">>) THEN a + 5 ELSE a + 4
        c == RunEnd(s, b, IsSpaceOrDash)
        e == RunEnd(s, c + 2, IsSpaceOrDash)
    IN  IF /\ IsDigit(s[p])
           /\ MatchLit(s, a, <<"y","e","a","r">>)
           /\ MatchLit(s, c, <<"o","f">>)
           /\ MatchLit(s, e, <<"e","x","p","e","r","i","e","n","c","e">>)
        THEN Hit(e + 10, SubSeq(s, p, e + 9))
        ELSE Miss

\* (?:experience[\s\-]*in[\s\-]*[\w\s]+) at position p: the last run starts at the
\* latest position the skipped spaces and dashes leave for it
ExperienceInAt(s, p) ==
    LET a == RunEnd(s, p + 10, IsSpaceOrDash)
        q == RunEnd(s, a + 2, IsSpaceOrDash)
        starts == {r \in (a + 2)..q : r <= Len(s) /\ IsSpaceOrWord(s[r])}
        r0 == CHOOSE r \in starts : \A j \in starts : r >= j
        e == RunEnd(s, r0, IsSpaceOrWord)
    IN  IF MatchLit(s, p, <<"e","x","p","e","r","i","e","n","c","e">>) /\ MatchLit(s, a, <<"i","n">>) /\ starts # {}
        THEN Hit(e, SubSeq(s, p, e - 1))
        ELSE Miss

\* JobAnalyzer._extract_qualifications
ExtractQualifications(text) ==
    Take(FindAllFrom([p \in 1..Len(text) |-> DegreeAt(text, p)], 1)
             \o FindAllFrom([p \in 1..Len(text) |-> YearsAt(text, p)], 1)
             \o FindAllFrom([p \in 1..Len(text) |-> ExperienceInAt(text, p)], 1), 5)

\* "([^"]+)" at position p
QuotedAt(s, p) ==
    LET e == RunEnd(s, p + 1, NotQuote)
    IN  IF s[p] = "\"" /\ e > p + 1 /\ e <= Len(s)
        THEN Hit(e + 1, SubSeq(s, p + 1, e - 1))
        ELSE Miss

\* <bullet>\s*([^<bullet>\n]+) at position p
BulletAt(s, p) ==
    LET q == RunEnd(s, p + 1, IsSpace)
        starts == {r \in (p + 1)..q : r <= Len(s) /\ NotBulletOrBreak(s[r])}
        r0 == CHOOSE r \in starts : \A j \in starts : r >= j
        e == RunEnd(s, r0, NotBulletOrBreak)
    IN  IF s[p] = BULLET /\ starts # {}
        THEN Hit(e, SubSeq(s, r0, e - 1))
        ELSE Miss

\* \b[A-Z][A-Z\s]{3,}\b at position p: the longest run that ends at a word boundary
CapitalsAt(s, p) ==
    LET ends == {e \in (p + 4)..RunEnd(s, p + 1, IsUpperOrSpace) : Boundary(s, e - 1)}
        e0 == CHOOSE e \in ends : \A j \in ends : e >= j
    IN  IF IsUpper(s[p]) /\ Boundary(s, p - 1) /\ ends # {}
        THEN Hit(e0, SubSeq(s, p, e0 - 1))
        ELSE Miss

\* JobAnalyzer._extract_key_phrases
ExtractKeyPhrases(text) ==
    Take(FindAllFrom([p \in 1..Len(text) |-> QuotedAt(text, p)], 1)
             \o FindAllFrom([p \in 1..Len(text) |-> BulletAt(text, p)], 1)
             \o Take(FindAllFrom([p \in 1..Len(text) |-> CapitalsAt(text, p)], 1), 5), 10)

REQUIREMENTS == <<"r","e","q","u","i","r","e","m","e","n","t","s">>
RESPONSIBILITIES == <<"r","e","s","p","o","n","s","i","b","i","l","i","t","i","e","s">>
QUALIFICATIONS == <<"q","u","a","l","i","f","i","c","a","t","i","o","n","s">>
EXPERIENCE_LEVEL == <<"e","x","p","e","r","i","e","n","c","e","_","l","e","v","e","l">>
INDUSTRY == <<"i","n","d","u","s","t","r","y">>
KEY_PHRASES == <<"k","e","y","_","p","h","r","a","s","e","s">>

\* A list of strings
StrList(x) == JArr([i \in 1..Len(x) |-> JStr(x[i])])

\* A list made of a set of strings: its order is not defined
StrSet(x) == [t |-> "set", items |-> x]

\* JobAnalyzer._analyze_with_patterns
AnalyzeWithPatterns(text) ==
    JObj(<<REQUIREMENTS, RESPONSIBILITIES, SKILLS, QUALIFICATIONS, EXPERIENCE_LEVEL,
           INDUSTRY, KEY_PHRASES>>,
         <<StrList(ExtractRequirements(text)),
           StrList(ExtractResponsibilities(text)),
           StrSet(ExtractSkills(text)),
           StrList(ExtractQualifications(text)),
           JStr(DetermineExperienceLevel(text)),
           JStr(IdentifyIndustry(text)),
           StrList(ExtractKeyPhrases(text))>>)

\* JobAnalyzer.analyze_job: {} for a text that is empty; otherwise the text is
\* cleaned, _analyze_with_ai returns None, and the patterns are applied
AnalyzeJob(job_description) ==
    IF job_description = <<>> THEN EmptyDict
    ELSE AnalyzeWithPatterns(CleanText(job_description))

----------------------------------------------------------------------------
(* Actions of the job analyzer *)

\* The analyzer on every job description of the model, computed once
ExperienceLevelOf == [t \in JobDocs |-> DetermineExperienceLevel(t)]
IndustryOf == [t \in JobDocs |-> IdentifyIndustry(t)]
AnalysisOf == [t \in JobDocs |-> AnalyzeJob(t)]

\* A call of _determine_experience_level(text)
DetermineExperienceLevelCall(text) ==
    /\ jlast' = [op |-> "_determine_experience_level", text |-> text,
                 out |-> JStr(ExperienceLevelOf[text])]
    /\ UNCHANGED <<runVars, pfile, profile_data, plast>>
    /\ UNCHANGED quotaVars
    /\ UNCHANGED genVars

\* A call of _identify_industry(text)
IdentifyIndustryCall(text) ==
    /\ jlast' = [op |-> "_identify_industry", text |-> text,
                 out |-> JStr(IndustryOf[text])]
    /\ UNCHANGED <<runVars, pfile, profile_data, plast>>
    /\ UNCHANGED quotaVars
    /\ UNCHANGED genVars

\* A call of analyze_job(job_description)
AnalyzeJobCall(text) ==
    /\ jlast' = [op |-> "analyze_job", text |-> text, out |-> AnalysisOf[text]]
    /\ UNCHANGED <<runVars, pfile, profile_data, plast>>
    /\ UNCHANGED quotaVars
    /\ UNCHANGED genVars

\* The job description the user has entered and nothing analysed yet
Entered(text) == [op |-> "none", text |-> text]

\* The job description is what the user typed on the job analysis page
InitAnalyzer ==
    /\ now = 0
    /\ ticks = 0
    /\ qfile = AbsentFile
    /\ raised = "none"
    /\ info = NoInfo
    /\ loaded = NonObject
    /\ calls = 0
    /\ succLog = <<>>
    /\ recorded = <<>>
    /\ hasKey = TRUE
    /\ pcalls = <<>>
    /\ gresult = [kind |-> "none", exc |-> "", msg |-> <<>>,
                  val |-> [t |-> "lit", name |-> "null"]]
    /\ session = NoSession
    /\ \E text \in JobDocs : jlast = Entered(text)
    /\ pfile = NoProfileFile
    /\ profile_data = EmptyDict
    /\ plast = NoCall
    /\ InitRun

DetermineExperienceLevelStep == DetermineExperienceLevelCall(jlast.text)

IdentifyIndustryStep == IdentifyIndustryCall(jlast.text)

AnalyzeJobStep == AnalyzeJobCall(jlast.text)

NextAnalyzer ==
    \/ DetermineExperienceLevelStep
    \/ IdentifyIndustryStep
    \/ AnalyzeJobStep

\* The job analyzer, called on the job description entered
SpecAnalyzer == InitAnalyzer /\ [][NextAnalyzer]_vars

----------------------------------------------------------------------------
(* Properties of the job analyzer *)

\* The smallest number of a non-empty set of numbers
MinOf(S) == CHOOSE i \in S : \A j \in S : i <= j

\* The names the levels and the industries are reported under, in table order
LevelTitles == <<<<"E","n","t","r","y"," ","L","e","v","e","l">>, <<"M","i","d"," ","L","e","v","e","l">>, <<"S","e","n","i","o","r"," ","L","e","v","e","l">>, <<"E","x","e","c","u","t","i","v","e">>>>
IndustryTitles ==
    <<<<"T","e","c","h","n","o","l","o","g","y">>, <<"F","i","n","a","n","c","e">>, <<"H","e","a","l","t","h","c","a","r","e">>, <<"M","a","r","k","e","t","i","n","g">>, <<"S","a","l","e","s">>,
      <<"C","o","n","s","u","l","t","i","n","g">>>>

\* The levels some keyword of which occurs in s as a whole word
LevelsIn(s) ==
    {i \in 1..Len(EXPERIENCE_LEVELS) :
        \E k \in 1..Len(EXPERIENCE_LEVELS[i].keywords) :
            WordMatch(EXPERIENCE_LEVELS[i].keywords[k], s)}

\* The industries some keyword of which occurs in s as a substring
IndustriesIn(s) ==
    {i \in 1..Len(INDUSTRY_PATTERNS) :
        \E k \in 1..Len(INDUSTRY_PATTERNS[i].keywords) :
            Contains(INDUSTRY_PATTERNS[i].keywords[k], s)}

\* C13: _determine_experience_level checks entry_level, mid_level, senior_level,
\* executive in this order and returns the first level one of whose keywords
\* occurs in the text as a whole word, in any case; "Mid Level" when there is
\* none; a text with both "junior" and "senior" is entry level.
C13_FirstLevelWins ==
    jlast.op = "_determine_experience_level" =>
        LET low == Lower(jlast.text)
        IN  /\ [i \in 1..Len(EXPERIENCE_LEVELS) |-> EXPERIENCE_LEVELS[i].name] =
                   <<<<"e","n","t","r","y","_","l","e","v","e","l">>, <<"m","i","d","_","l","e","v","e","l">>, <<"s","e","n","i","o","r","_","l","e","v","e","l">>, <<"e","x","e","c","u","t","i","v","e">>>>
            /\ jlast.out.s = IF LevelsIn(low) = {} THEN <<"M","i","d"," ","L","e","v","e","l">>
                             ELSE LevelTitles[MinOf(LevelsIn(low))]
            /\ (WordMatch(<<"j","u","n","i","o","r">>, low) /\ WordMatch(<<"s","e","n","i","o","r">>, low)) =>
                   jlast.out.s = <<"E","n","t","r","y"," ","L","e","v","e","l">>

\* A text that names the senior level first and the junior one second is entry level
C13_Witness ==
    /\ jlast.op = "_determine_experience_level"
    /\ jlast.text = <<"S","e","n","i","o","r"," ","j","u","n","i","o","r">>
    /\ jlast.out.s = <<"E","n","t","r","y"," ","L","e","v","e","l">>

\* The texts made of "fintech" and "patient care" and nothing else
FintechPatientCare == {<<"f","i","n","t","e","c","h"," ","p","a","t","i","e","n","t"," ","c","a","r","e">>, <<"p","a","t","i","e","n","t"," ","c","a","r","e"," ","f","i","n","t","e","c","h">>}

\* C14 as stated: a text with "fintech" and "patient care" is classified as
\* "Finance", finance coming before healthcare.
C14_FintechIsFinance ==
    (jlast.op = "_identify_industry" /\ jlast.text \in FintechPatientCare) =>
        jlast.out.s = <<"F","i","n","a","n","c","e">>

\* C14 amended: a text with "fintech" and "patient care" is classified as
\* "Technology": the technology keyword "tech" is a substring of "fintech" and
\* technology comes before finance, so neither finance nor healthcare is checked.
C14_FintechIsTechnology ==
    (jlast.op = "_identify_industry" /\ jlast.text \in FintechPatientCare) =>
        /\ jlast.out.s = <<"T","e","c","h","n","o","l","o","g","y">>
        /\ IndustriesIn(Lower(jlast.text)) = {1, 2}

C14_Witness ==
    /\ jlast.op = "_identify_industry"
    /\ jlast.text = <<"f","i","n","t","e","c","h"," ","p","a","t","i","e","n","t"," ","c","a","r","e">>
    /\ jlast.out.s = <<"T","e","c","h","n","o","l","o","g","y">>

\* C15: _identify_industry goes through technology, finance, healthcare,
\* marketing, sales, consulting in this order and returns the title-cased name of
\* the first one a keyword of which is a substring of the text in any case, with
\* no word boundary; "General" exactly when no keyword of any industry is one.
C15_FirstIndustryWins ==
    jlast.op = "_identify_industry" =>
        LET low == Lower(jlast.text)
        IN  /\ [i \in 1..Len(INDUSTRY_PATTERNS) |-> INDUSTRY_PATTERNS[i].name] =
                   <<<<"t","e","c","h","n","o","l","o","g","y">>, <<"f","i","n","a","n","c","e">>, <<"h","e","a","l","t","h","c","a","r","e">>, <<"m","a","r","k","e","t","i","n","g">>,
                     <<"s","a","l","e","s">>, <<"c","o","n","s","u","l","t","i","n","g">>>>
            /\ jlast.out.s = IF IndustriesIn(low) = {} THEN <<"G","e","n","e","r","a","l">>
                             ELSE IndustryTitles[MinOf(IndustriesIn(low))]
            /\ jlast.out.s = <<"G","e","n","e","r","a","l">> <=> IndustriesIn(low) = {}

\* "it" inside "seniority" makes a text about banking a technology one
C15_Witness ==
    /\ jlast.op = "_identify_industry"
    /\ jlast.text = <<"b","a","n","k","i","n","g"," ","s","e","n","i","o","r","i","t","y">>
    /\ jlast.out.s = <<"T","e","c","h","n","o","l","o","g","y">>

\* The record of a job with nothing in it
DefaultAnalysis ==
    JObj(<<REQUIREMENTS, RESPONSIBILITIES, SKILLS, QUALIFICATIONS, EXPERIENCE_LEVEL,
           INDUSTRY, KEY_PHRASES>>,
         <<StrList(<<>>), StrList(<<>>), StrSet({}), StrList(<<>>), JStr(<<"M","i","d"," ","L","e","v","e","l">>),
           JStr(<<"G","e","n","e","r","a","l">>), StrList(<<>>)>>)

\* C16: analyze_job on an empty text returns a record in which requirements,
\* responsibilities, skills, qualifications and key_phrases are present and
\* empty, experience_level is "Mid Level" and industry is "General".
C16_EmptyTextDefaults ==
    (jlast.op = "analyze_job" /\ jlast.text = <<>>) => jlast.out = DefaultAnalysis

\* A text of one space, which is not empty, does get the record of defaults
C16_Witness ==
    /\ jlast.op = "analyze_job"
    /\ jlast.text = <<" ">>
    /\ jlast.out = DefaultAnalysis

----------------------------------------------------------------------------
(* json.dumps(value, indent=2) *)

\* A number in decimal
RECURSIVE DecimalOf(_)
DecimalOf(n) ==
    IF n < 0 THEN <<"-">> \o DecimalOf(0 - n)
    ELSE IF n < 10 THEN <<Digits[n + 1]>>
    ELSE DecimalOf(n \div 10) \o <<Digits[(n % 10) + 1]>>

\* \uXXXX of a code point, in lower case
EscapeCode(n) ==
    <<"\\", "u", HexDigits[((n \div 4096) % 16) + 1], HexDigits[((n \div 256) % 16) + 1],
      HexDigits[((n \div 16) % 16) + 1], HexDigits[(n % 16) + 1]>>

\* A character that is written as it is: what a careless writer does to all
WrittenRaw(c) == <<c>>

\* A character inside a string literal (ensure_ascii is on)
EscapeChar(c) ==
    IF c = "\"" THEN <<"\\", "\"">>
    ELSE IF c = "\\" THEN <<"\\", "\\">>
    ELSE IF c = "\n" THEN <<"\\", "n">>
    ELSE IF c = "\r" THEN <<"\\", "r">>
    ELSE IF c = "\t" THEN <<"\\", "t">>
    ELSE IF c = "\f" THEN <<"\\", "f">>
    ELSE IF c = "U+0008" THEN <<"\\", "b">>
    ELSE IF c \in NonAscii THEN EscapeCode(CodeOf[c])
    ELSE <<c>>

\* The pieces of f from the lo-th to the hi-th, one after the other
RECURSIVE FlattenRange(_, _, _)
FlattenRange(f, lo, hi) ==
    IF lo > hi THEN <<>>
    ELSE IF lo = hi THEN f[lo]
    ELSE FlattenRange(f, lo, (lo + hi) \div 2) \o FlattenRange(f, ((lo + hi) \div 2) + 1, hi)

EscapeAll(s) == FlattenRange([k \in 1..Len(s) |-> EscapeChar(s[k])], 1, Len(s))

DumpString(s) == <<"\"">> \o EscapeAll(s) \o <<"\"">>

\* A line break and the indentation of a nesting depth
RECURSIVE Spaces(_)
Spaces(n) == IF n = 0 THEN <<>> ELSE <<" ">> \o Spaces(n - 1)

NewLine(depth) == <<"\n">> \o Spaces(2 * depth)

RECURSIVE Dump(_, _)
RECURSIVE DumpItems(_, _, _)
RECURSIVE DumpMembers(_, _, _)

\* The items of a list from the k-th on, each on a line of its own
DumpItems(v, k, depth) ==
    IF k > Len(v.items) THEN <<>>
    ELSE (IF k > 1 THEN <<",">> ELSE <<>>) \o NewLine(depth) \o Dump(v.items[k], depth)
         \o DumpItems(v, k + 1, depth)

\* The members of a dict from the k-th on, each on a line of its own
DumpMembers(v, k, depth) ==
    IF k > Len(v.keys) THEN <<>>
    ELSE (IF k > 1 THEN <<",">> ELSE <<>>) \o NewLine(depth) \o DumpString(v.keys[k])
         \o <<":", " ">> \o Dump(v.vals[k], depth) \o DumpMembers(v, k + 1, depth)

Dump(v, depth) ==
    IF v.t = "str" THEN DumpString(v.s)
    ELSE IF v.t = "int" THEN DecimalOf(v.n)
    ELSE IF v.t = "lit" THEN
        IF v.name = "null" THEN <<"n", "u", "l", "l">>
        ELSE IF v.name = "true" THEN <<"t", "r", "u", "e">>
        ELSE <<"f", "a", "l", "s", "e">>
    ELSE IF v.t = "arr" THEN
        IF v.items = <<>> THEN <<"[", "]">>
        ELSE <<"[">> \o DumpItems(v, 1, depth + 1) \o NewLine(depth) \o <<"]">>
    ELSE IF v.keys = <<>> THEN <<"{", "}">>
    ELSE <<"{">> \o DumpMembers(v, 1, depth + 1) \o NewLine(depth) \o <<"}">>

\* json.dumps(v, indent=2)
JsonDumps(v) == Dump(v, 0)

----------------------------------------------------------------------------
(* The profile manager *)

NAME == <<"n","a","m","e">>
EMAIL == <<"e","m","a","i","l">>
PHONE == <<"p","h","o","n","e">>
JSON == <<"j","s","o","n">>
TXT == <<"t","x","t">>

\* `key in d` and d[key] on a dict
DictHas(d, k) == \E i \in 1..Len(d.keys) : d.keys[i] = k
DictGet(d, k) == d.vals[CHOOSE i \in 1..Len(d.keys) : d.keys[i] = k]

\* `not v` and len(v) on the values a profile holds
Falsy(v) ==
    \/ v.t = "str" /\ v.s = <<>>
    \/ v.t = "arr" /\ v.items = <<>>
    \/ v.t = "obj" /\ v.keys = <<>>
    \/ v.t = "int" /\ v.n = 0
    \/ v.t = "lit" /\ v.name \in {"null", "false"}

PyLen(v) == IF v.t = "str" THEN Len(v.s) ELSE IF v.t = "arr" THEN Len(v.items) ELSE Len(v.keys)

REQUIRED_FIELDS == <<NAME, EMAIL, SUMMARY, SKILLS, EXPERIENCE>>

SummaryMinLength == 50
SkillsMinLength == 20
ExperienceMinLength == 100

SummaryWarning == <<"P","r","o","f","e","s","s","i","o","n","a","l"," ","s","u","m","m","a","r","y"," ","i","s"," ","q","u","i","t","e"," ","s","h","o","r","t">>
SkillsWarning == <<"S","k","i","l","l","s"," ","s","e","c","t","i","o","n"," ","i","s"," ","q","u","i","t","e"," ","s","h","o","r","t">>
ExperienceWarning == <<"W","o","r","k"," ","e","x","p","e","r","i","e","n","c","e"," ","s","e","c","t","i","o","n"," ","i","s"," ","q","u","i","t","e"," ","s","h","o","r","t">>

\* get_missing_fields(): the required fields that are absent or empty, in order
IsMissing(pd, field) == ~DictHas(pd, field) \/ Falsy(DictGet(pd, field))

GetMissingFields(pd) == SelectSeq(REQUIRED_FIELDS, LAMBDA field : IsMissing(pd, field))

\* A threshold that counts the length at the threshold as short too
IsShortOrEqual(pd, field, n) == DictHas(pd, field) /\ PyLen(DictGet(pd, field)) <= n

\* `field in self.profile_data and len(self.profile_data[field]) < n`
IsShort(pd, field, n) == DictHas(pd, field) /\ PyLen(DictGet(pd, field)) < n

\* validate_profile()
ValidateProfile(pd) ==
    LET missing == GetMissingFields(pd)
    IN  [is_valid |-> missing = <<>>,
         missing_fields |-> missing,
         warnings |->
             (IF IsShort(pd, SUMMARY, SummaryMinLength) THEN <<SummaryWarning>> ELSE <<>>)
             \o (IF IsShort(pd, SKILLS, SkillsMinLength) THEN <<SkillsWarning>> ELSE <<>>)
             \o (IF IsShort(pd, EXPERIENCE, ExperienceMinLength)
                 THEN <<ExperienceWarning>> ELSE <<>>)]

\* get_profile(): a copy of the mapping
GetProfile(pd) == JObj(pd.keys, pd.vals)

\* str.upper()
Upper(s) == [i \in 1..Len(s) |-> UpperChar(s[i])]

\* sep.join(lines)
RECURSIVE Join(_, _)
Join(lines, sep) ==
    IF lines = <<>> THEN <<>>
    ELSE IF Len(lines) = 1 THEN lines[1]
    ELSE lines[1] \o sep \o Join(Tail(lines), sep)

\* s.split(sep)
RECURSIVE Split(_, _)
Split(s, sep) ==
    LET at == Find(sep, s, 0)
    IN  IF at < 0 THEN <<s>>
        ELSE <<Slice(s, 0, at)>> \o Split(SubSeq(s, at + Len(sep) + 1, Len(s)), sep)

BlankLine == <<"\n", "\n">>

\* The text export: KEY: value, a blank line between the fields
ExportTxt(pd) ==
    Join([i \in 1..Len(pd.keys) |-> Upper(pd.keys[i]) \o <<":", " ">> \o pd.vals[i].s],
         BlankLine)

UnsupportedFormat(format) == <<"U","n","s","u","p","p","o","r","t","e","d"," ","f","o","r","m","a","t",":"," ">> \o format

\* The profiles of the model
TextOfLength(n) == [i \in 1..n |-> "x"]

Profile(keys, texts) == JObj(keys, [i \in 1..Len(texts) |-> JStr(texts[i])])

FullProfile ==
    Profile(REQUIRED_FIELDS,
            <<<<"A","d","a">>, <<"a","d","a","@","x",".","i","o">>, TextOfLength(SummaryMinLength),
              TextOfLength(SkillsMinLength), TextOfLength(ExperienceMinLength)>>)

ShortProfile ==
    Profile(REQUIRED_FIELDS,
            <<<<"A","d","a">>, <<"a","d","a","@","x",".","i","o">>, TextOfLength(SummaryMinLength - 1),
              TextOfLength(SkillsMinLength - 1), TextOfLength(ExperienceMinLength - 1)>>)

NoNameProfile ==
    Profile(<<EMAIL, SUMMARY, SKILLS, EXPERIENCE>>,
            <<<<"a","d","a","@","x",".","i","o">>, <<"E","n","g","i","n","e","e","r">>, <<"P","y","t","h","o","n">>, <<"A","C","M","E"," ","2","0","2","0","-","2","0","2","4">>>>)

EmptySummaryProfile ==
    Profile(REQUIRED_FIELDS, <<<<"A","d","a">>, <<>>, <<>>, <<"P","y","t","h","o","n">>, <<"A","C","M","E"," ","2","0","2","0","-","2","0","2","4">>>>)

ReversedProfile ==
    Profile(<<EXPERIENCE, SKILLS, SUMMARY, EMAIL, NAME>>,
            <<<<>>, <<"P","y","t","h","o","n">>, <<"E","n","g","i","n","e","e","r">>, <<"a","d","a","@","x",".","i","o">>, <<>>>>)

NameOnlyProfile == Profile(<<NAME, PHONE>>, <<<<"A","d","a">>, <<"+","1"," ","5","5","5"," ","0","1","0","0">>>>)

QuotedProfile ==
    Profile(<<NAME, SUMMARY, <<"w","e","b"," ","s","i","t","e">>>>,
            <<<<"A","d","a"," ","\"","t","h","e","\""," ","C","o","u","n","t","e","s","s","\\","L","o","v","e","l","a","c","e">>,
              <<"r", "U+00E9", "s", "u", "m", "U+00E9", ":", "\n", "\t", BULLET, " ", "{", "}", "/">>,
              <<"h","t","t","p","s",":","/","/","x",".","i","o","/","?","a","=","1","&","b","=","[","2","]">>>>)

Profiles ==
    {EmptyDict, FullProfile, ShortProfile, NoNameProfile, EmptySummaryProfile,
     ReversedProfile, NameOnlyProfile, QuotedProfile}

\* export_profile(format)
ExportProfile(pd, format) ==
    IF Lower(format) = JSON THEN Returned(JStr(JsonDumps(pd)))
    ELSE IF Lower(format) = TXT THEN Returned(JStr(ExportTxt(pd)))
    ELSE Raised("ValueError", UnsupportedFormat(format))

\* The txt import: the fields are the blocks with a colon in them
RECURSIVE ImportLines(_, _)
ImportLines(lines, acc) ==
    IF lines = <<>> THEN acc
    ELSE LET line == Head(lines)
             at == Find(<<":">>, line, 0)
         IN  IF at < 0 THEN ImportLines(Tail(lines), acc)
             ELSE ImportLines(Tail(lines),
                              DictSet(acc, Strip(Lower(Slice(line, 0, at))),
                                      JStr(Strip(SubSeq(line, at + 2, Len(line))))))

\* The try block of import_profile up to save_profile: the mapping, or what is raised
ParseImport(data, format) ==
    IF Lower(format) = JSON
    THEN LET r == JsonLoads(data)
         IN  IF r.ok THEN Returned(r.val) ELSE Raised("JSONDecodeError", <<>>)
    ELSE IF Lower(format) = TXT THEN Returned(ImportLines(Split(data, BlankLine), EmptyDict))
    ELSE Raised("ValueError", UnsupportedFormat(format))

\* What import_profile is called with
CorruptTexts == {<<>>, <<"{","\"","n","a","m","e","\"",":"," ","\"","A","d","a","\"">>, <<"n","a","m","e"," ","="," ","A","d","a">>}

ImportInputs ==
    {<<text, JSON>> : text \in CorruptTexts}
    \cup {<<<<"{","\"","n","a","m","e","\"",":"," ","\"","A","d","a","\"",","," ","\"","p","h","o","n","e","\"",":"," ","\"","+","1"," ","5","5","5"," ","0","1","0","0","\"","}">>, format>> :
             format \in {JSON, <<"J","S","O","N">>, <<"x","m","l">>}}
    \cup {<<<<"N","A","M","E",":"," ","A","d","a","\n","\n","E","m","a","i","l"," ",":"," ","a","d","a","@","x",".","i","o","\n","\n","n","o"," ","c","o","l","o","n"," ","h","e","r","e">>, TXT>>}

\* What can happen to a write of the profile file: it works, the file cannot be
\* opened, or the file is opened, which empties it, and the writing fails
WriteOutcomes == {"written", "not opened", "emptied"}

EmptiedFile == ProfileFile(<<>>)

\* A save that puts the mapping in place before the file is written
AssignedFirst(old, new) == new

\* The in-memory profile after a failed save: the assignment was not reached
AfterFailedSave(old, new) == old

\* save_profile(new) with the file and the in-memory profile as they are
SaveProfile(file, old, new, outcome) ==
    IF outcome = "written"
    THEN [pfile |-> ProfileFile(JsonDumps(new)), profile_data |-> new, out |-> TRUE]
    ELSE IF outcome = "not opened"
    THEN [pfile |-> file, profile_data |-> AfterFailedSave(old, new), out |-> FALSE]
    ELSE [pfile |-> EmptiedFile, profile_data |-> AfterFailedSave(old, new), out |-> FALSE]

\* _load_profile(): a file that is missing or does not parse leaves {}
CorruptFile == ProfileFile(<<"{","\"","n","a","m","e","\"",":"," ">>)

LoadProfile(file) ==
    IF ~file.exists THEN EmptyDict
    ELSE LET r == JsonLoads(file.text) IN IF r.ok THEN r.val ELSE EmptyDict

\* json.load(f) of show_profile_setup: nothing catches what it raises
PageLoad(file) ==
    LET r == JsonLoads(file.text)
    IN  IF r.ok THEN Returned(r.val) ELSE Raised("JSONDecodeError", <<>>)

\* ProfileManager(): the constructor
NewProfileManager ==
    /\ profile_data' = LoadProfile(pfile)
    /\ plast' = [op |-> "__init__", raised |-> FALSE]
    /\ UNCHANGED <<runVars, jlast, pfile>>
    /\ UNCHANGED quotaVars
    /\ UNCHANGED genVars

\* show_profile_setup(), up to the choice of the input method: a ProfileManager,
\* then json.load of the file if there is one
ShowProfileSetup ==
    /\ profile_data' = LoadProfile(pfile)
    /\ plast' = [op |-> "show_profile_setup",
                 raised |-> pfile.exists /\ PageLoad(pfile).kind = "raised"]
    /\ UNCHANGED <<runVars, jlast, pfile>>
    /\ UNCHANGED quotaVars
    /\ UNCHANGED genVars

\* Whether a ProfileManager has been made
Constructed == plast.op # "none"

\* save_profile(new)
SaveProfileCall(new, outcome) ==
    /\ Constructed
    /\ LET r == SaveProfile(pfile, profile_data, new, outcome)
       IN  /\ pfile' = r.pfile
           /\ profile_data' = r.profile_data
           /\ plast' = [op |-> "save_profile", new |-> new, outcome |-> outcome,
                        out |-> r.out, raised |-> FALSE]
    /\ UNCHANGED <<runVars, jlast>>
    /\ UNCHANGED quotaVars
    /\ UNCHANGED genVars

\* export_profile(format)
ExportProfileCall(format) ==
    /\ Constructed
    /\ plast' = [op |-> "export_profile", format |-> format,
                 result |-> ExportProfile(profile_data, format)]
    /\ UNCHANGED <<runVars, jlast, pfile, profile_data>>
    /\ UNCHANGED quotaVars
    /\ UNCHANGED genVars

\* import_profile(data, format): whatever the try block raises is answered by False
ImportProfileCall(data, format) ==
    /\ Constructed
    /\ LET p == ParseImport(data, format)
       IN  \E outcome \in WriteOutcomes :
               LET r == IF p.kind = "raised"
                        THEN [pfile |-> pfile, profile_data |-> profile_data, out |-> FALSE]
                        ELSE SaveProfile(pfile, profile_data, p.val, outcome)
               IN  /\ pfile' = r.pfile
                   /\ profile_data' = r.profile_data
                   /\ plast' = [op |-> "import_profile", data |-> data, format |-> format,
                                outcome |-> outcome, before |-> profile_data,
                                out |-> r.out, raised |-> FALSE]
    /\ UNCHANGED <<runVars, jlast>>
    /\ UNCHANGED quotaVars
    /\ UNCHANGED genVars

\* validate_profile()
ValidateProfileCall ==
    /\ Constructed
    /\ plast' = [op |-> "validate_profile", out |-> ValidateProfile(profile_data)]
    /\ UNCHANGED <<runVars, jlast, pfile, profile_data>>
    /\ UNCHANGED quotaVars
    /\ UNCHANGED genVars

ValidateProfileStep == ValidateProfileCall

SaveProfileStep == \E new \in Profiles, outcome \in WriteOutcomes : SaveProfileCall(new, outcome)

ExportProfileStep == \E format \in {JSON, <<"J","s","o","n">>, TXT, <<"x","m","l">>} : ExportProfileCall(format)

\* What export_profile has just returned, with the format it was asked for
Exported ==
    IF plast.op = "export_profile" /\ plast.result.kind = "value"
    THEN {<<plast.result.val.s, plast.format>>}
    ELSE {}

ImportProfileStep == \E i \in ImportInputs \cup Exported : ImportProfileCall(i[1], i[2])

\* The profile file when the app starts: none, one that is not JSON, a saved one
InitProfile ==
    /\ now = 0
    /\ ticks = 0
    /\ qfile = AbsentFile
    /\ raised = "none"
    /\ info = NoInfo
    /\ loaded = NonObject
    /\ calls = 0
    /\ succLog = <<>>
    /\ recorded = <<>>
    /\ hasKey = TRUE
    /\ pcalls = <<>>
    /\ gresult = [kind |-> "none", exc |-> "", msg |-> <<>>,
                  val |-> [t |-> "lit", name |-> "null"]]
    /\ session = NoSession
    /\ jlast = NoCall
    /\ pfile \in {NoProfileFile, CorruptFile, ProfileFile(JsonDumps(FullProfile))}
    /\ profile_data = EmptyDict
    /\ plast = NoCall
    /\ InitRun

NextProfile ==
    \/ NewProfileManager
    \/ ShowProfileSetup
    \/ SaveProfileStep
    \/ ExportProfileStep
    \/ ImportProfileStep
    \/ ValidateProfileStep

\* The profile manager and the profile page on one profile file
SpecProfile == InitProfile /\ [][NextProfile]_vars

----------------------------------------------------------------------------
(* Properties of the profile manager *)

\* C17: for every profile P of text fields that the manager holds,
\* import_profile(export_profile("json"), "json") does not raise, returns True
\* when the profile file gets written, and afterwards get_profile() is P exactly,
\* with the same keys in the same order and the same values.
C17_ExportImportRoundTrip ==
    (/\ plast.op = "import_profile"
     /\ Lower(plast.format) = JSON
     /\ \A k \in 1..Len(plast.before.vals) : plast.before.vals[k].t = "str"
     /\ plast.data = ExportProfile(plast.before, JSON).val.s) =>
        /\ ~plast.raised
        /\ plast.outcome = "written" => plast.out = TRUE
        /\ GetProfile(profile_data) = plast.before

\* The profile with quotes, a backslash, a line break and accents went through
C17_Witness ==
    /\ plast.op = "import_profile"
    /\ plast.before = QuotedProfile
    /\ plast.data = JsonDumps(QuotedProfile)
    /\ plast.out = TRUE
    /\ profile_data = QuotedProfile
    /\ pfile = ProfileFile(plast.data)

\* C18: validate_profile says is_valid exactly when none of name, email, summary,
\* skills, experience is absent or empty; missing_fields lists the absent or empty
\* ones in this order; there is a warning for a present summary, skills or
\* experience exactly when it is shorter than 50, 20 or 100 characters; warnings
\* have no part in is_valid.
C18_ValidationExact ==
    plast.op = "validate_profile" =>
        LET pd == profile_data
            v == plast.out
            Present(f) == \E k \in 1..Len(pd.keys) : pd.keys[k] = f
            Value(f) == pd.vals[CHOOSE k \in 1..Len(pd.keys) : pd.keys[k] = f].s
            AbsentOrEmpty(f) == ~Present(f) \/ Value(f) = <<>>
            Warned(w) == \E k \in 1..Len(v.warnings) : v.warnings[k] = w
        IN  /\ v.is_valid <=>
                   \A f \in {<<"n","a","m","e">>, <<"e","m","a","i","l">>, <<"s","u","m","m","a","r","y">>, <<"s","k","i","l","l","s">>, <<"e","x","p","e","r","i","e","n","c","e">>} :
                       ~AbsentOrEmpty(f)
            /\ v.missing_fields =
                   SelectSeq(<<<<"n","a","m","e">>, <<"e","m","a","i","l">>, <<"s","u","m","m","a","r","y">>, <<"s","k","i","l","l","s">>,
                               <<"e","x","p","e","r","i","e","n","c","e">>>>, AbsentOrEmpty)
            /\ Warned(SummaryWarning) <=> (Present(<<"s","u","m","m","a","r","y">>) /\ Len(Value(<<"s","u","m","m","a","r","y">>)) < 50)
            /\ Warned(SkillsWarning) <=> (Present(<<"s","k","i","l","l","s">>) /\ Len(Value(<<"s","k","i","l","l","s">>)) < 20)
            /\ Warned(ExperienceWarning) <=>
                   (Present(<<"e","x","p","e","r","i","e","n","c","e">>) /\ Len(Value(<<"e","x","p","e","r","i","e","n","c","e">>)) < 100)
            /\ \A k \in 1..Len(v.warnings) :
                   v.warnings[k] \in {SummaryWarning, SkillsWarning, ExperienceWarning}
            /\ v.is_valid <=> v.missing_fields = <<>>

\* A profile one character short of each threshold is valid and has three warnings
C18_Witness ==
    /\ plast.op = "validate_profile"
    /\ profile_data = ShortProfile
    /\ plast.out.is_valid
    /\ plast.out.warnings = <<SummaryWarning, SkillsWarning, ExperienceWarning>>

\* Whether import_profile(data, format) fails before it comes to save the profile
FailsToParse(data, format) == Lower(format) = JSON /\ ~JsonLoads(data).ok
Unsupported(format) == Lower(format) \notin {JSON, TXT}

\* C19: import_profile never raises; when the input does not parse, when the
\* format is not a supported one, and when the write fails, it returns False and
\* the in-memory profile is what it was before the call.
C19_ImportFailsQuietly ==
    plast.op = "import_profile" =>
        /\ ~plast.raised
        /\ plast.out \in BOOLEAN
        /\ (\/ FailsToParse(plast.data, plast.format)
            \/ Unsupported(plast.format)
            \/ plast.outcome # "written") =>
               (plast.out = FALSE /\ profile_data = plast.before)

\* A write that fails after the file was opened: False, the profile is kept
C19_Witness ==
    /\ plast.op = "import_profile"
    /\ ~FailsToParse(plast.data, plast.format)
    /\ ~Unsupported(plast.format)
    /\ plast.outcome = "emptied"
    /\ plast.out = FALSE
    /\ plast.before = FullProfile
    /\ profile_data = FullProfile
    /\ pfile = EmptiedFile

\* Whether the profile file is missing or is not JSON
MissingOrCorrupt(file) == ~file.exists \/ ~JsonLoads(file.text).ok

\* C20: with a profile file that is missing or is not JSON, neither
\* ProfileManager() nor the rendering of the profile page raises, and the profile
\* is empty.
C20_CorruptFileDegrades ==
    (plast.op \in {"__init__", "show_profile_setup"} /\ MissingOrCorrupt(pfile)) =>
        (~plast.raised /\ profile_data = EmptyDict)

\* ProfileManager() on a file that is not JSON does give the empty profile
C20_Witness ==
    /\ plast.op = "__init__"
    /\ pfile = CorruptFile
    /\ ~plast.raised
    /\ profile_data = EmptyDict

----------------------------------------------------------------------------
(* extract_text_from_response (GeminiProvider, BaseAIProvider) *)

CHOICES == <<"c","h","o","i","c","e","s">>
MESSAGE == <<"m","e","s","s","a","g","e">>
CONTENT == <<"c","o","n","t","e","n","t">>
TEXT == <<"t","e","x","t">>
CANDIDATES == <<"c","a","n","d","i","d","a","t","e","s">>

\* Whether s holds the character c
HasChar(s, c) == \E i \in 1..Len(s) : s[i] = c

\* The quote repr() puts around a str: ' unless the str holds ' and no "
ReprQuote(s) == IF HasChar(s, "'") /\ ~HasChar(s, "\"") THEN "\"" ELSE "'"

\* repr() of one character of a str that is written between quotes q
ReprChar(c, q) ==
    IF c = "\\" THEN <<"\\", "\\">>
    ELSE IF c = q THEN <<"\\", q>>
    ELSE IF c = "\n" THEN <<"\\", "n">>
    ELSE IF c = "\t" THEN <<"\\", "t">>
    ELSE IF c = "\r" THEN <<"\\", "r">>
    ELSE IF c = "\f" THEN <<"\\", "x", "0", "c">>
    ELSE IF c = "U+0008" THEN <<"\\", "x", "0", "8">>
    ELSE <<c>>

\* repr() of a str
ReprString(s) ==
    LET q == ReprQuote(s)
    IN  <<q>> \o FlattenRange([i \in 1..Len(s) |-> ReprChar(s[i], q)], 1, Len(s)) \o <<q>>

\* repr() of a value made of dicts, lists, strs, ints and True / False / None
RECURSIVE PyRepr(_)
PyRepr(v) ==
    IF v.t = "str" THEN ReprString(v.s)
    ELSE IF v.t = "int" THEN DecimalOf(v.n)
    ELSE IF v.t = "lit"
         THEN (IF v.name = "null" THEN <<"N","o","n","e">>
               ELSE IF v.name = "true" THEN <<"T","r","u","e">> ELSE <<"F","a","l","s","e">>)
    ELSE IF v.t = "arr"
         THEN <<"[">> \o Join([i \in 1..Len(v.items) |-> PyRepr(v.items[i])], <<",", " ">>)
                  \o <<"]">>
    ELSE <<"{">> \o Join([i \in 1..Len(v.keys) |->
                             ReprString(v.keys[i]) \o <<":", " ">> \o PyRepr(v.vals[i])],
                         <<",", " ">>) \o <<"}">>

\* str() of such a value: a str is itself, anything else is its repr()
PyStr(v) == IF v.t = "str" THEN v.s ELSE PyRepr(v)

\* What the SDK's generate_content may hand back. An SDK object has a `text`
\* attribute or not, or one whose getter raises ValueError (a response without a
\* usable candidate); it has `parts`, a list of parts' texts, or not; and a str()
\* form. A value is a plain dict, list or str.
SdkObject(text, parts, str) == [kind |-> "object", text |-> text, parts |-> parts, str |-> str]
SdkValue(v) == [kind |-> "value", v |-> v]

HasAttr(x) == [has |-> "yes", val |-> x]
NoAttr == [has |-> "no", val |-> <<>>]
AttrRaises(msg) == [has |-> "raises", val |-> msg]

\* response['choices'][0]['message']['content'] = s
ChoicesOf(s) == JArr(<<JObj(<<MESSAGE>>, <<JObj(<<CONTENT>>, <<JStr(s)>>)>>)>>)

ResponseTexts == {<<"D","e","a","r"," ","t","e","a","m",",">>, <<"i","t","'","s"," ","\"","o","k","\"">>, <<"i","t","'","s">>, <<>>}
ObjectStr == <<"<","G","e","n","e","r","a","t","e","C","o","n","t","e","n","t","R","e","s","p","o","n","s","e",">">>
NoCandidate == <<"r","e","s","p","o","n","s","e",".","t","e","x","t"," ","r","e","q","u","i","r","e","s"," ","a"," ","v","a","l","i","d"," ","P","a","r","t">>

ResponseKeys ==
    {<<>>, <<CONTENT>>, <<TEXT>>, <<CANDIDATES>>, <<CHOICES>>, <<CONTENT, TEXT>>, <<TEXT, CONTENT>>,
     <<CONTENT, CHOICES>>, <<CANDIDATES, TEXT>>}

\* The dict with these keys that holds s under the first key and t under the others
ResponseDict(keys, s, t) ==
    JObj(keys, [i \in 1..Len(keys) |->
                   IF keys[i] = CHOICES THEN ChoicesOf(IF i = 1 THEN s ELSE t)
                   ELSE JStr(IF i = 1 THEN s ELSE t)])

Responses ==
    {SdkValue(ResponseDict(keys, s, <<"o","t","h","e","r">>)) : keys \in ResponseKeys, s \in ResponseTexts}
        \cup {SdkValue(JStr(s)) : s \in ResponseTexts}
        \cup {SdkValue(JArr(<<JStr(s)>>)) : s \in ResponseTexts}
        \cup {SdkObject(HasAttr(s), <<<<"p","a","r","t">>>>, ObjectStr) : s \in ResponseTexts}
        \cup {SdkObject(NoAttr, <<s, <<"s","e","c","o","n","d">>>>, ObjectStr) : s \in ResponseTexts}
        \cup {SdkObject(NoAttr, <<>>, ObjectStr), SdkObject(AttrRaises(NoCandidate), <<>>, ObjectStr)}

\* str(response)
StrOfResponse(r) == IF r.kind = "object" THEN r.str ELSE PyStr(r.v)

\* GeminiProvider.extract_text_from_response: `text`, then `parts`, then str();
\* a dict, a list and a str have neither attribute; hasattr lets a ValueError of
\* the getter through
GeminiExtractText(r) ==
    IF r.kind = "object" /\ r.text.has = "raises" THEN Raised("ValueError", r.text.val)
    ELSE IF r.kind = "object" /\ r.text.has = "yes" THEN Returned(JStr(r.text.val))
    ELSE IF r.kind = "object" /\ r.parts # <<>> THEN Returned(JStr(r.parts[1]))
    ELSE Returned(JStr(StrOfResponse(r)))

\* BaseAIProvider.extract_text_from_response, which GeminiProvider overrides: a str
\* as it is, a dict by its known keys, anything else by str()
BaseExtractText(r) ==
    IF r.kind = "value" /\ r.v.t = "str" THEN Returned(r.v)
    ELSE IF r.kind = "value" /\ r.v.t = "obj"
         THEN IF DictHas(r.v, CHOICES)
              THEN LET c == DictGet(r.v, CHOICES)
                   IN  IF c.t = "arr" /\ c.items # <<>> /\ c.items[1].t = "obj"
                          /\ DictHas(c.items[1], MESSAGE)
                          /\ DictGet(c.items[1], MESSAGE).t = "obj"
                          /\ DictHas(DictGet(c.items[1], MESSAGE), CONTENT)
                       THEN Returned(DictGet(DictGet(c.items[1], MESSAGE), CONTENT))
                       ELSE Raised("LookupError", <<>>)
              ELSE IF DictHas(r.v, CONTENT) THEN Returned(DictGet(r.v, CONTENT))
              ELSE IF DictHas(r.v, TEXT) THEN Returned(DictGet(r.v, TEXT))
              ELSE Returned(JStr(StrOfResponse(r)))
    ELSE Returned(JStr(StrOfResponse(r)))

\* GeminiProvider.generate, given what generate_content returned: the text its own
\* extract_text_from_response makes of it, or the error wrapped
GenerateFrom(r) ==
    LET x == GeminiExtractText(r)
    IN  IF x.kind = "raised" THEN Raised("Exception", GeminiPrefix \o x.msg) ELSE x

\* The SDK has returned this response and no provider method has dealt with it yet
Received(r) == [op |-> "none", response |-> r]

GeminiExtractTextCall(r) ==
    /\ sdk' = [op |-> "GeminiProvider.extract_text_from_response", response |-> r]
    /\ gresult' = GeminiExtractText(r)
    /\ UNCHANGED <<hasKey, pcalls, session, pc, local>>
    /\ UNCHANGED quotaVars
    /\ UNCHANGED docVars

BaseExtractTextCall(r) ==
    /\ sdk' = [op |-> "BaseAIProvider.extract_text_from_response", response |-> r]
    /\ gresult' = BaseExtractText(r)
    /\ UNCHANGED <<hasKey, pcalls, session, pc, local>>
    /\ UNCHANGED quotaVars
    /\ UNCHANGED docVars

GenerateFromCall(r) ==
    /\ sdk' = [op |-> "generate", response |-> r]
    /\ gresult' = GenerateFrom(r)
    /\ UNCHANGED <<hasKey, pcalls, session, pc, local>>
    /\ UNCHANGED quotaVars
    /\ UNCHANGED docVars

GeminiExtractTextStep == GeminiExtractTextCall(sdk.response)
BaseExtractTextStep == BaseExtractTextCall(sdk.response)
GenerateFromStep == GenerateFromCall(sdk.response)

\* A provider that has just been handed one of the responses
InitExtract ==
    /\ now = 0
    /\ ticks = 0
    /\ qfile = AbsentFile
    /\ raised = "none"
    /\ info = NoInfo
    /\ loaded = NonObject
    /\ calls = 0
    /\ succLog = <<>>
    /\ recorded = <<>>
    /\ hasKey = TRUE
    /\ pcalls = <<>>
    /\ gresult = [kind |-> "none", exc |-> "", msg |-> <<>>,
                  val |-> [t |-> "lit", name |-> "null"]]
    /\ session = NoSession
    /\ jlast = NoCall
    /\ pfile = NoProfileFile
    /\ profile_data = EmptyDict
    /\ plast = NoCall
    /\ \E r \in Responses : sdk = Received(r)
    /\ pc = [p \in Procs |-> "idle"]
    /\ local = [p \in Procs |-> NoCall]

NextExtract ==
    \/ GeminiExtractTextStep
    \/ BaseExtractTextStep
    \/ GenerateFromStep

\* The normalisation of provider responses, on every response of the model
SpecExtract == InitExtract /\ [][NextExtract]_vars

\* C21: the adapter used for generation, GeminiProvider, normalises a dict
\* response {"content": s} to s, for its extract_text_from_response and for
\* generate as a whole.
C21_DictContentNormalised ==
    (/\ sdk.op \in {"GeminiProvider.extract_text_from_response", "generate"}
     /\ sdk.response.kind = "value"
     /\ sdk.response.v.t = "obj"
     /\ sdk.response.v.keys = <<CONTENT>>) =>
        gresult = Returned(sdk.response.v.vals[1])

\* generate has been handed the dict {"content": "it's"} and has returned the
\* dict's str() form
C21_Witness ==
    /\ sdk.op = "generate"
    /\ sdk.response = SdkValue(JObj(<<CONTENT>>, <<JStr(<<"i","t","'","s">>)>>))
    /\ gresult = Returned(JStr(<<"{","'","c","o","n","t","e","n","t","'",":"," ","\"","i","t","'","s","\"","}">>))

----------------------------------------------------------------------------
(* More properties of the generators *)

\* Where key first occurs in s, whatever the case of the letters of s (0 if nowhere)
FirstAt(key, s) ==
    LET hits == {i \in 1..(Len(s) - Len(key) + 1) :
                    Lower(SubSeq(s, i, i + Len(key) - 1)) = key}
    IN  IF hits = {} THEN 0 ELSE CHOOSE i \in hits : \A j \in hits : i <= j

\* The text of s from position i to the end of the line that holds position i
LineFrom(s, i) ==
    LET ends == {j \in i..(Len(s) + 1) : j = Len(s) + 1 \/ s[j] = "\n"}
    IN  SubSeq(s, i, (CHOOSE j \in ends : \A k \in ends : j <= k) - 1)

\* The reply of a batch call went to the fallback of its parser
FellBack ==
    /\ pcalls # <<>>
    /\ pcalls[1].max_tokens \in {BatchMaxTokens, SectionsMaxTokens}
    /\ lastCall.ok
    /\ ~JsonLoads(lastCall.text).ok
    /\ gresult.kind = "value"

\* C22: in the fallback of the batch parsers, the value of a field name that
\* occurs in the reply is the text from its first occurrence (in any case) to the
\* end of that line, stripped, wherever the line stands in the reply, the last
\* line without a line break included; a name that does not occur gives "".
C22_FallbackTakesLine ==
    FellBack =>
        \A i \in 1..Len(gresult.val.keys) :
            gresult.val.vals[i].s =
                (IF FirstAt(gresult.val.keys[i], lastCall.text) = 0 THEN <<>>
                 ELSE Strip(LineFrom(lastCall.text,
                                     FirstAt(gresult.val.keys[i], lastCall.text))))

\* generate_resume_sections has fallen back on a reply of section headers and has
\* taken the whole summary line, which is followed by a line break
C22_Witness ==
    /\ FellBack
    /\ pcalls[1].max_tokens = SectionsMaxTokens
    /\ lastCall.text = ReplyHeaders
    /\ gresult.val.keys = <<SUMMARY, SKILLS, EXPERIENCE>>
    /\ gresult.val.vals[1].s = LineFrom(ReplyHeaders, 1)
    /\ gresult.val.vals[1].s = <<"S","u","m","m","a","r","y",":"," ","a">>

\* The batch call of the cover letter generator has returned a value
BatchReturned ==
    /\ pcalls # <<>>
    /\ pcalls[1].max_tokens = BatchMaxTokens
    /\ lastCall.ok
    /\ gresult.kind = "value"

\* C29: whatever the reply, also one that is valid JSON, what
\* generate_batch_resume_and_cover_letter returns is a dict that has the four
\* keys summary, skills, experience and cover_letter.
C29_AlwaysFourKeys ==
    BatchReturned =>
        /\ gresult.val.t = "obj"
        /\ \A k \in {<<"s","u","m","m","a","r","y">>, <<"s","k","i","l","l","s">>, <<"e","x","p","e","r","i","e","n","c","e">>, <<"c","o","v","e","r","_","l","e","t","t","e","r">>} :
               \E i \in 1..Len(gresult.val.keys) : gresult.val.keys[i] = k

\* A reply that is the JSON object of the four sections is returned as that dict
C29_Witness ==
    /\ BatchReturned
    /\ lastCall.text = ReplyFull
    /\ gresult.val.t = "obj"
    /\ gresult.val.keys = <<SUMMARY, SKILLS, EXPERIENCE, COVER_LETTER>>

\* Whether the message of a provider failure makes _generate_with_retry retry
MentionsQuotaOrToken(msg) ==
    Contains(<<"q","u","o","t","a">>, Lower(msg)) \/ Contains(<<"t","o","k","e","n">>, Lower(msg))

\* The message GeminiProvider.generate raises for the failure of call c
FailureOf(c) == <<"G","e","m","i","n","i"," ","A","P","I"," ","e","r","r","o","r",":"," ">> \o c.text

\* The prefix of the generator method that asked for this many tokens
FailedToGenerate(max_tokens) ==
    IF max_tokens = 3000 THEN <<"F","a","i","l","e","d"," ","t","o"," ","g","e","n","e","r","a","t","e"," ","b","a","t","c","h"," ","c","o","n","t","e","n","t",":"," ">>
    ELSE IF max_tokens = 2000 THEN <<"F","a","i","l","e","d"," ","t","o"," ","g","e","n","e","r","a","t","e"," ","r","e","s","u","m","e"," ","s","e","c","t","i","o","n","s",":"," ">>
    ELSE <<"F","a","i","l","e","d"," ","t","o"," ","g","e","n","e","r","a","t","e"," ","s","k","i","l","l","s",":"," ">>

\* C30: one request through _generate_with_retry makes at most two provider
\* calls; it makes exactly one when the first call succeeds and when the first
\* call fails with a message that holds neither "quota" nor "token", and then
\* the generator raises that message behind its own "Failed to generate ..."
\* prefix.
C30_AtMostOneRetry ==
    pcalls # <<>> =>
        /\ Len(pcalls) <= 2
        /\ pcalls[1].ok => Len(pcalls) = 1
        /\ (~pcalls[1].ok /\ ~MentionsQuotaOrToken(FailureOf(pcalls[1]))) =>
               /\ Len(pcalls) = 1
               /\ gresult.kind = "raised"
               /\ gresult.exc = "Exception"
               /\ gresult.msg = FailedToGenerate(pcalls[1].max_tokens) \o FailureOf(pcalls[1])

\* The batch call has failed on a timeout and was not retried
C30_Witness ==
    /\ Len(pcalls) = 1
    /\ pcalls[1].max_tokens = 3000
    /\ ~pcalls[1].ok
    /\ pcalls[1].text = <<"t","i","m","e","o","u","t">>
    /\ gresult.kind = "raised"
    /\ gresult.msg = <<"F","a","i","l","e","d"," ","t","o"," ","g","e","n","e","r","a","t","e"," ","b","a","t","c","h"," ","c","o","n","t","e","n","t",":"," ","G","e","m","i","n","i"," ","A","P","I"," ","e","r","r","o","r",":"," ","t","i","m","e","o","u","t">>

----------------------------------------------------------------------------
(* Key phrases of a job description *)

\* The positions of the double quotes of s
QuotesOf(s) == {i \in 1..Len(s) : s[i] = "\""}

\* The first double-quoted phrase of s: what stands between the first double
\* quote and the next one, if that is at least one character
FirstQuoted(s) ==
    LET a == MinOf(QuotesOf(s))
        b == MinOf(QuotesOf(s) \ {a})
    IN  IF Cardinality(QuotesOf(s)) >= 2 /\ b > a + 1 THEN <<SubSeq(s, a + 1, b - 1)>> ELSE <<>>

\* The first bullet-prefixed fragment of s: what follows the first bullet and the
\* white space after it, up to the next bullet or line break
FirstBulleted(s) ==
    LET bullets == {i \in 1..Len(s) : s[i] = "U+2022"}
        a == MinOf(bullets)
        starts == {i \in (a + 1)..(Len(s) + 1) : i = Len(s) + 1 \/ s[i] \notin Whitespace}
        b == MinOf(starts)
        ends == {i \in b..(Len(s) + 1) : i = Len(s) + 1 \/ s[i] \in {"U+2022", "\n"}}
    IN  IF bullets # {} /\ MinOf(ends) > b THEN <<SubSeq(s, b, MinOf(ends) - 1)>> ELSE <<>>

\* The key_phrases of an analysis, as a sequence of texts
KeyPhrasesOf(analysis) ==
    LET v == DictGet(analysis, <<"k","e","y","_","p","h","r","a","s","e","s">>)
    IN  [i \in 1..Len(v.items) |-> v.items[i].s]

\* C23: the key_phrases analyze_job returns for a job description hold the
\* double-quoted phrases and the bullet-prefixed fragments of that description:
\* its first quoted phrase and its first bulleted fragment are among them (they
\* come first, so the cap of 10 does not remove them).
C23_KeyPhrasesKept ==
    (jlast.op = "analyze_job" /\ jlast.text # <<>>) =>
        /\ \A q \in {FirstQuoted(jlast.text)[i] : i \in 1..Len(FirstQuoted(jlast.text))} :
               \E k \in 1..Len(KeyPhrasesOf(jlast.out)) : KeyPhrasesOf(jlast.out)[k] = q
        /\ \A b \in {FirstBulleted(jlast.text)[i] : i \in 1..Len(FirstBulleted(jlast.text))} :
               \E k \in 1..Len(KeyPhrasesOf(jlast.out)) : KeyPhrasesOf(jlast.out)[k] = b
        /\ Len(KeyPhrasesOf(jlast.out)) <= 10

\* The posting with a bullet, a quoted word and capitals has been analysed: only
\* the run of capitals is among its key phrases
C23_Witness ==
    /\ jlast.op = "analyze_job"
    /\ jlast.text = <<"U+2022">> \o <<" ","\"","A","g","i","l","e","\""," ","T","E","A","M"," ","L","E","A","D">>
    /\ FirstQuoted(jlast.text) = <<<<"A","g","i","l","e">>>>
    /\ FirstBulleted(jlast.text) = <<<<"\"","A","g","i","l","e","\""," ","T","E","A","M"," ","L","E","A","D">>>>
    /\ KeyPhrasesOf(jlast.out) = <<<<"T","E","A","M"," ","L","E","A","D">>>>

----------------------------------------------------------------------------
(* Several processes in _update_quota_usage on one quota file *)

\* A quota record with these counters whose two windows began at time 0
CountedUsage(daily, minute) == UsageDict(Fields, daily, minute, 0, 0, <<>>)

\* The quota files the processes start on
RaceFiles ==
    {AbsentFile, JsonFile(CountedUsage(0, 0)), JsonFile(CountedUsage(7, 3)),
     JsonFile(WarmUsage)}

\* Incrementing the counters the file holds now, as a locked update would: not
\* what the code writes
SavedOnCurrent(f, l) ==
    JsonFile(IncrementCounters(
        RolloverDaily(RolloverMinute(LoadQuotaUsage(f, l.current_time), l.current_time),
                      l.current_time), TRUE))

\* lines 56-79 for _update_quota_usage(success=True): the file a process writes
\* from its locals, whatever the file holds by then
SavedFromLocals(f, l) ==
    JsonFile(IncrementCounters(
        RolloverDaily(RolloverMinute(l.usage, l.current_time), l.current_time), TRUE))

\* lines 52-53 in process p: the file is read into `usage` and the clock into
\* `current_time`
ProcLoad(p) ==
    /\ pc[p] = "idle"
    /\ pc' = [pc EXCEPT ![p] = "loaded"]
    /\ local' = [local EXCEPT ![p] = [op |-> "_update_quota_usage",
                                      usage |-> LoadQuotaUsage(qfile, now),
                                      current_time |-> now]]
    /\ UNCHANGED <<sdk, quotaVars, genVars, docVars>>

\* lines 56-79 in process p: the windows are rolled and the counters incremented
\* on the record read before, and the record is written over the file
ProcSave(p) ==
    /\ pc[p] = "loaded"
    /\ pc' = [pc EXCEPT ![p] = "done"]
    /\ qfile' = SavedFromLocals(qfile, local[p])
    /\ calls' = calls + 1
    /\ succLog' = Append(succLog, local[p].current_time)
    /\ raised' = "none"
    /\ info' = NoInfo
    /\ loaded' = NonObject
    /\ UNCHANGED <<now, ticks, recorded, sdk, local, genVars, docVars>>

ProcLoadStep == \E p \in Procs : ProcLoad(p)
ProcSaveStep == \E p \in Procs : ProcSave(p)

\* NumProcs processes about to call _update_quota_usage(success=True) once each
InitRace ==
    /\ now = 0
    /\ ticks = 0
    /\ qfile \in RaceFiles
    /\ raised = "none"
    /\ info = NoInfo
    /\ loaded = NonObject
    /\ calls = 0
    /\ succLog = <<>>
    /\ recorded = <<>>
    /\ hasKey = TRUE
    /\ pcalls = <<>>
    /\ gresult = [kind |-> "none", exc |-> "", msg |-> <<>>,
                  val |-> [t |-> "lit", name |-> "null"]]
    /\ session = NoSession
    /\ InitDocs

NextRace ==
    \/ ProcLoadStep
    \/ ProcSaveStep
    \/ TickStep

\* The processes interleaved in any way at their reads and writes of the file
SpecRace == InitRace /\ [][NextRace]_vars

\* Every process has returned from _update_quota_usage
AllDone == \A p \in Procs : pc[p] = "done"

\* All processes read the same record, and no window of it had elapsed for any
SameRead ==
    /\ \A p \in Procs : local[p].usage = local[1].usage
    /\ \A p \in Procs :
           /\ local[p].current_time - local[p].usage.last_minute_reset < 60
           /\ local[p].current_time - local[p].usage.last_daily_reset < 86400

\* C24: the quota file is read, modified and written without a lock, so updates
\* can be lost: what the file holds after the calls is what one process made of
\* the record it had read itself, and when all processes read the file before
\* any of them wrote it, minute_requests and daily_requests have grown by 1 and
\* not by the number of calls.
C24_LostUpdate ==
    AllDone =>
        /\ \E p \in Procs :
               /\ usage.daily_requests =
                      Rolled(local[p].usage.daily_requests, local[p].usage.last_daily_reset,
                             local[p].current_time, 86400, TRUE)[1]
               /\ usage.minute_requests =
                      Rolled(local[p].usage.minute_requests, local[p].usage.last_minute_reset,
                             local[p].current_time, 60, TRUE)[1]
        /\ SameRead =>
               /\ usage.daily_requests = local[1].usage.daily_requests + 1
               /\ usage.minute_requests = local[1].usage.minute_requests + 1

\* Two calls were made on the file that held 7 and 3 requests, and it holds 8 and 4
C24_Witness ==
    /\ AllDone
    /\ SameRead
    /\ Len(succLog) >= 2
    /\ local[1].usage = CountedUsage(7, 3)
    /\ usage.daily_requests = 8
    /\ usage.minute_requests = 4

----------------------------------------------------------------------------
(* The two windows of a quota record over more than a day *)

MaxWindowCalls == 3
MaxWindowTicks == 3

\* The clock advances by just under a minute window, or by what is left of a day
WindowSteps == {MinuteWindow - 1, DayWindow - MinuteWindow}

\* _update_quota_usage(success) with no error text, on a file that can be written
WindowUpdate(success) ==
    LET out == UpdateOutcome(qfile, now, success, None)
    IN  /\ calls < MaxWindowCalls
        /\ raised' = out.raised
        /\ qfile' = IF out.raised = "none" THEN SaveQuotaUsage(qfile, out.usage, TRUE)
                    ELSE qfile
        /\ info' = NoInfo
        /\ loaded' = NonObject
        /\ calls' = calls + 1
        /\ succLog' = IF success THEN Append(succLog, now) ELSE succLog
        /\ UNCHANGED <<now, ticks, recorded>>
        /\ UNCHANGED <<genVars, docVars, runVars>>

\* Time passes
WindowTick(d) ==
    /\ ticks < MaxWindowTicks
    /\ now' = now + d
    /\ ticks' = ticks + 1
    /\ UNCHANGED <<qfile, raised, info, loaded, calls, succLog, recorded>>
    /\ UNCHANGED <<genVars, docVars, runVars>>

WindowUpdateStep == \E success \in BOOLEAN : WindowUpdate(success)
WindowTickStep == \E d \in WindowSteps : WindowTick(d)

NextWindows ==
    \/ WindowUpdateStep
    \/ WindowTickStep

\* Calls of _update_quota_usage at non-decreasing times, from a first run on
SpecWindows == InitFresh /\ [][NextWindows]_vars

----------------------------------------------------------------------------
(* get_quota_info on a record whose window has elapsed *)

\* C26: get_quota_info rolls no window over. With 60 seconds or more since
\* last_minute_reset it reports the stored minute_requests as minute_used, the
\* remaining requests computed from it, and 0 seconds until the reset, and leaves
\* the file as it is; the same for the day window with 86400 seconds. Only a call
\* of _update_quota_usage restarts the elapsed window.
C26_StaleUntilUpdate ==
    [][qfile.kind = "json" =>
          LET minuteOver == now - usage.last_minute_reset >= 60
              dayOver == now - usage.last_daily_reset >= 86400
          IN  /\ GetQuotaInfo =>
                     /\ qfile' = qfile
                     /\ minuteOver =>
                            /\ info'.minute_used = usage.minute_requests
                            /\ info'.minute_remaining =
                                   (IF usage.minute_requests > 15 THEN 0
                                    ELSE 15 - usage.minute_requests)
                            /\ info'.minute_reset_in = <<0, "s">>
                     /\ dayOver =>
                            /\ info'.daily_used = usage.daily_requests
                            /\ info'.daily_remaining =
                                   (IF usage.daily_requests > 1500 THEN 0
                                    ELSE 1500 - usage.daily_requests)
                            /\ info'.daily_reset_in = <<0, "m">>
              /\ (minuteOver /\ qfile' # qfile) =>
                     /\ UpdateStep
                     /\ usage'.last_minute_reset = now
                     /\ usage'.minute_requests \in {0, 1}
              /\ (dayOver /\ qfile' # qfile) =>
                     /\ UpdateStep
                     /\ usage'.last_daily_reset = now
                     /\ usage'.daily_requests \in {0, 1}
      ]_vars

\* Both windows of the record have elapsed and get_quota_info has reported its
\* 14 and 1499 requests as used, with nothing left to wait
C26_Witness ==
    /\ qfile.kind = "json"
    /\ now - usage.last_minute_reset >= 60
    /\ now - usage.last_daily_reset >= 86400
    /\ info.valid
    /\ info.minute_used = 14
    /\ usage.minute_requests = 14
    /\ info.minute_remaining = 1
    /\ info.minute_reset_in = <<0, "s">>
    /\ info.daily_used = 1499
    /\ info.daily_reset_in = <<0, "m">>

----------------------------------------------------------------------------
(* The other operations of the profile manager *)

\* d.update(updates): the keys of updates in their order, set one by one
RECURSIVE DictUpdate(_, _, _)
DictUpdate(d, updates, k) ==
    IF k > Len(updates.keys) THEN d
    ELSE DictUpdate(DictSet(d, updates.keys[k], updates.vals[k]), updates, k + 1)

\* What update_profile and set_field are called with
GraceProfile == Profile(<<NAME>>, <<<<"G","r","a","c","e">>>>)
Updates == {Profile(<<EMAIL>>, <<<<"a","d","a","@","x",".","i","o">>>>)}
FieldValues == {<<NAME, JStr(<<"G","r","a","c","e">>)>>}

\* Texts that are JSON but not a JSON object, and one that is an object
NonObjectTexts == {<<"[","\"","A","d","a","\"","]">>, <<"7">>, <<"\"","A","d","a","\"">>, <<"n","u","l","l">>}
ObjectText == <<"{","\"","n","a","m","e","\"",":"," ","\"","A","d","a","\"","}">>

\* What can happen to os.remove of the profile file
RemoveOutcomes == {"removed", "not removed"}

\* A call that left with an exception, the manager as it was
RaisedIn(op, exc) == [op |-> op, raised |-> TRUE, exc |-> exc]

\* update_profile(updates): the in-memory dict is updated in place, then saved
UpdateProfileCall(updates, outcome) ==
    /\ Constructed
    /\ IF profile_data.t # "obj"
       THEN /\ plast' = RaisedIn("update_profile", "AttributeError")
            /\ UNCHANGED <<pfile, profile_data>>
       ELSE LET merged == DictUpdate(profile_data, updates, 1)
                r == SaveProfile(pfile, merged, merged, outcome)
            IN  /\ pfile' = r.pfile
                /\ profile_data' = r.profile_data
                /\ plast' = [op |-> "update_profile", raised |-> FALSE, out |-> r.out,
                             before |-> profile_data]
    /\ UNCHANGED <<runVars, jlast>>
    /\ UNCHANGED quotaVars
    /\ UNCHANGED genVars

\* set_field(field, value): the in-memory dict is assigned to, then saved
SetFieldCall(field, value, outcome) ==
    /\ Constructed
    /\ IF profile_data.t # "obj"
       THEN /\ plast' = RaisedIn("set_field", "TypeError")
            /\ UNCHANGED <<pfile, profile_data>>
       ELSE LET assigned == DictSet(profile_data, field, value)
                r == SaveProfile(pfile, assigned, assigned, outcome)
            IN  /\ pfile' = r.pfile
                /\ profile_data' = r.profile_data
                /\ plast' = [op |-> "set_field", raised |-> FALSE, out |-> r.out,
                             before |-> profile_data]
    /\ UNCHANGED <<runVars, jlast>>
    /\ UNCHANGED quotaVars
    /\ UNCHANGED genVars

\* clear_profile(): the in-memory profile is emptied first, then the file removed
ClearProfileCall(outcome) ==
    /\ Constructed
    /\ profile_data' = EmptyDict
    /\ pfile' = IF pfile.exists /\ outcome = "removed" THEN NoProfileFile ELSE pfile
    /\ plast' = [op |-> "clear_profile", raised |-> FALSE,
                 out |-> (~pfile.exists \/ outcome = "removed"), before |-> profile_data]
    /\ UNCHANGED <<runVars, jlast>>
    /\ UNCHANGED quotaVars
    /\ UNCHANGED genVars

\* get_profile(): self.profile_data.copy(), which a str, a number and None lack
GetProfileCall ==
    /\ Constructed
    /\ plast' = IF profile_data.t = "obj"
                THEN [op |-> "get_profile", raised |-> FALSE, out |-> GetProfile(profile_data)]
                ELSE IF profile_data.t = "arr"
                THEN [op |-> "get_profile", raised |-> FALSE, out |-> JArr(profile_data.items)]
                ELSE RaisedIn("get_profile", "AttributeError")
    /\ UNCHANGED <<runVars, jlast, pfile, profile_data>>
    /\ UNCHANGED quotaVars
    /\ UNCHANGED genVars

\* get_field(field): self.profile_data.get(field, ""), which only a dict has
GetFieldCall(field) ==
    /\ Constructed
    /\ plast' = IF profile_data.t = "obj"
                THEN [op |-> "get_field", raised |-> FALSE,
                      out |-> IF DictHas(profile_data, field) THEN DictGet(profile_data, field)
                              ELSE JStr(<<>>)]
                ELSE RaisedIn("get_field", "AttributeError")
    /\ UNCHANGED <<runVars, jlast, pfile, profile_data>>
    /\ UNCHANGED quotaVars
    /\ UNCHANGED genVars

UpdateProfileStep ==
    \E updates \in Updates, outcome \in WriteOutcomes : UpdateProfileCall(updates, outcome)

SetFieldStep ==
    \E fv \in FieldValues, outcome \in WriteOutcomes : SetFieldCall(fv[1], fv[2], outcome)

ClearProfileStep == \E outcome \in RemoveOutcomes : ClearProfileCall(outcome)

SaveSmallProfileStep ==
    \E outcome \in WriteOutcomes : SaveProfileCall(GraceProfile, outcome)

ImportJsonStep ==
    \E data \in NonObjectTexts \cup {ObjectText} : ImportProfileCall(data, JSON)

GetFieldStep == GetFieldCall(NAME)

\* No profile file yet, or one saved before
InitProfileOps ==
    /\ now = 0
    /\ ticks = 0
    /\ qfile = AbsentFile
    /\ raised = "none"
    /\ info = NoInfo
    /\ loaded = NonObject
    /\ calls = 0
    /\ succLog = <<>>
    /\ recorded = <<>>
    /\ hasKey = TRUE
    /\ pcalls = <<>>
    /\ gresult = [kind |-> "none", exc |-> "", msg |-> <<>>,
                  val |-> [t |-> "lit", name |-> "null"]]
    /\ session = NoSession
    /\ jlast = NoCall
    /\ pfile \in {NoProfileFile, ProfileFile(JsonDumps(NameOnlyProfile))}
    /\ profile_data = EmptyDict
    /\ plast = NoCall
    /\ InitRun

NextProfileOps ==
    \/ NewProfileManager
    \/ SaveSmallProfileStep
    \/ UpdateProfileStep
    \/ SetFieldStep
    \/ ClearProfileStep
    \/ ImportJsonStep
    \/ GetProfileCall
    \/ GetFieldStep

\* Every operation of the profile manager that changes the profile, and its reads
SpecProfileOps == InitProfileOps /\ [][NextProfileOps]_vars

\* The operations of ProfileManager that change the profile
MutatingOps == {"save_profile", "update_profile", "set_field", "import_profile", "clear_profile"}

\* C27: when save_profile, update_profile, set_field, import_profile or
\* clear_profile returns False, the in-memory profile is what it was before the
\* call.
C27_FailureKeepsProfile ==
    [][(/\ plast'.op \in MutatingOps
        /\ ~plast'.raised
        /\ plast'.out = FALSE) => profile_data' = profile_data]_vars

\* update_profile has returned False on a write that failed, and the in-memory
\* profile holds the update all the same
C27_Witness ==
    /\ plast.op = "update_profile"
    /\ ~plast.raised
    /\ plast.out = FALSE
    /\ plast.before = NameOnlyProfile
    /\ profile_data = Profile(<<NAME, PHONE, EMAIL>>, <<<<"A","d","a">>, <<"+","1"," ","5","5","5"," ","0","1","0","0">>, <<"a","d","a","@","x",".","i","o">>>>)
    /\ pfile = ProfileFile(JsonDumps(NameOnlyProfile))

\* Whether a text is JSON for something that is not an object
IsNonObjectJson(data) == JsonLoads(data).ok /\ JsonLoads(data).val.t # "obj"

\* C28: the in-memory profile is always a mapping from field names to values;
\* import_profile(data, "json") with JSON that is not an object returns False
\* and leaves the profile as it was.
C28_ProfileIsMapping ==
    /\ profile_data.t = "obj"
    /\ (/\ plast.op = "import_profile"
        /\ Lower(plast.format) = JSON
        /\ IsNonObjectJson(plast.data)) =>
           (plast.out = FALSE /\ profile_data = plast.before)

\* import_profile has been given a JSON string, has returned True, and the
\* in-memory profile is that string
C28_Witness ==
    /\ plast.op = "import_profile"
    /\ plast.data = <<"\"","A","d","a","\"">>
    /\ plast.out = TRUE
    /\ profile_data = JStr(<<"A","d","a">>)
    /\ pfile = ProfileFile(<<"\"","A","d","a","\"">>)

====
